---- MODULE Spec2Model ----
(***************************************************************************)
(* Model of the USMLE ingestion pipeline scripts (src/scripts/*.py).       *)
(*                                                                         *)
(* Python str values are sequences of one-character strings, payload bytes *)
(* are sequences of tokens with a byte length each, files are a function   *)
(* from path to content.                                                   *)
(***************************************************************************)
EXTENDS Integers, Sequences, FiniteSets, TLC

(***************************************************************************)
(* Bounds                                                                  *)
(***************************************************************************)
\* longest raw identifier drawn for the normalizer
MaxIdLen == 5
\* how many times in a row one normalize_pmcid copy is applied
MaxApply == 2
\* how many script invocations share one working directory
MaxCalls == 2

(***************************************************************************)
(* Python str                                                              *)
(***************************************************************************)
Alphabet == {" ", "p", "P", "M", "c", "7"}

Whitespace == {" ", "\n"}

Digits == {"7"}

\* NoneVal stands for Python's None where a str is expected
NoneVal == <<"<None>">>

PMC == <<"P", "M", "C">>

Strings(n) == UNION {[1..k -> Alphabet] : k \in 0..n}

MinOf(S) == CHOOSE x \in S : \A y \in S : x <= y

MaxOf(S) == CHOOSE x \in S : \A y \in S : x >= y

\* str.strip()
Strip(s) ==
    LET keep == {k \in 1..Len(s) : s[k] \notin Whitespace}
    IN  IF keep = {} THEN <<>> ELSE SubSeq(s, MinOf(keep), MaxOf(keep))

UpperChar(ch) ==
    CASE ch = "p" -> "P"
      [] ch = "m" -> "M"
      [] ch = "c" -> "C"
      [] ch = "x" -> "X"
      [] OTHER -> ch

\* str.upper()
Upper(s) == [k \in 1..Len(s) |-> UpperChar(s[k])]

\* str.startswith(prefix)
StartsWith(s, prefix) ==
    /\ Len(s) >= Len(prefix)
    /\ SubSeq(s, 1, Len(prefix)) = prefix

\* pmcid or ""
OrEmpty(s) == IF s = NoneVal THEN <<>> ELSE s

(***************************************************************************)
(* Identifier Normalizer: the six copies of normalize_pmcid                *)
(***************************************************************************)
AttributeError == <<"<AttributeError>">>

\* fetch_pmc_xml.py: strip, upper, prefix; None has no strip()
normalize_pmcid_fetch(s) ==
    IF s = NoneVal THEN AttributeError
    ELSE LET t == Upper(Strip(s))
         IN  IF ~StartsWith(t, PMC) THEN PMC \o t ELSE t

\* fetch_pmc_xml_full.py
normalize_pmcid_full(s) ==
    IF s = NoneVal THEN AttributeError
    ELSE LET t == Upper(Strip(s))
         IN  IF ~StartsWith(t, PMC) THEN PMC \o t ELSE t

\* extract_pmc_text.py
normalize_pmcid_extract(s) ==
    IF s = NoneVal THEN AttributeError
    ELSE LET t == Upper(Strip(s))
         IN  IF ~StartsWith(t, PMC) THEN PMC \o t ELSE t

\* a normalizer that forgets the startswith test
NormalizeAlwaysPrefix(s) ==
    LET t == Upper(Strip(OrEmpty(s)))
    IN  IF t = <<>> THEN <<>> ELSE PMC \o t

\* audit_fulltext_coverage.py: (pmcid or ""), "" on blank
normalize_pmcid_audit(s) ==
    LET t == Upper(Strip(OrEmpty(s)))
    IN  IF t = <<>> THEN <<>>
        ELSE IF ~StartsWith(t, PMC) THEN PMC \o t ELSE t

\* build_step1_stems.py
normalize_pmcid_stems(s) ==
    LET t == Upper(Strip(OrEmpty(s)))
    IN  IF t = <<>> THEN <<>>
        ELSE IF ~StartsWith(t, PMC) THEN PMC \o t ELSE t

\* replace_bad_item.py
normalize_pmcid_replace(s) ==
    LET t == Upper(Strip(OrEmpty(s)))
    IN  IF t = <<>> THEN <<>>
        ELSE IF ~StartsWith(t, PMC) THEN PMC \o t ELSE t

Copies == {"fetch_pmc_xml", "fetch_pmc_xml_full", "extract_pmc_text",
           "audit_fulltext_coverage", "build_step1_stems", "replace_bad_item"}

normalize_pmcid(copy, s) ==
    CASE copy = "fetch_pmc_xml" -> normalize_pmcid_fetch(s)
      [] copy = "fetch_pmc_xml_full" -> normalize_pmcid_full(s)
      [] copy = "extract_pmc_text" -> normalize_pmcid_extract(s)
      [] copy = "audit_fulltext_coverage" -> normalize_pmcid_audit(s)
      [] copy = "build_step1_stems" -> normalize_pmcid_stems(s)
      [] copy = "replace_bad_item" -> normalize_pmcid_replace(s)

\* PMC_ID_RE = ^PMC[0-9]+$ with re.IGNORECASE, used through re.match
is_valid_pmcid(s) ==
    LET t == OrEmpty(s)
    IN  /\ Len(t) >= 4
        /\ Upper(SubSeq(t, 1, 3)) = PMC
        /\ \A k \in 4..Len(t) : t[k] \in Digits

(***************************************************************************)
(* Payload bytes and HTTP responses                                        *)
(***************************************************************************)
\* content[:200] of the HTML error check
HtmlWindow == 200
\* content[:500] of the XML-likeness check
XmlWindow == 500

\* byte length of a token; "text" is filler without any "<"
TokLen(t) ==
    CASE t = "<html" -> 5
      [] t = "<HTML" -> 5
      [] t = "<?xml" -> 5
      [] t = "<article" -> 8
      [] t = "text" -> 196

\* bytes.lower()
LowerTok(t) == IF t = "<HTML" THEN "<html" ELSE t

RECURSIVE ByteLen(_)
ByteLen(content) ==
    IF content = <<>> THEN 0
    ELSE TokLen(Head(content)) + ByteLen(Tail(content))

\* marker in content[:limit].lower()
InHead(marker, content, limit) ==
    \E k \in 1..Len(content) :
        /\ LowerTok(content[k]) = marker
        /\ ByteLen(SubSeq(content, 1, k)) <= limit

Payloads ==
    { <<>>,
      <<"<article">>,
      <<"<?xml">>,
      <<"<html">>,
      <<"text">>,
      <<"<HTML", "<article">>,
      <<"text", "<html", "<article">>,
      <<"text", "text", "text", "<article">> }

Statuses == {200, 304, 404}

\* what requests.get produces: a response, or an exception (timeout, transport)
RequestException == [exc |-> TRUE, status |-> 0, content |-> <<>>]

Responses ==
    {RequestException} \cup [exc : {FALSE}, status : Statuses, content : Payloads]

\* Response.raise_for_status(): HTTPError for 4xx and 5xx
RaisesForStatus(resp) == resp.status >= 400 /\ resp.status < 600

\* b"<html" in content[:200].lower()
HasHtmlMarker(content) == InHead("<html", content, HtmlWindow)

\* fetch_pmc_xml.is_valid_xml: <xml, <article or <pmc-articleset in the head
is_valid_xml(content) ==
    \/ InHead("<xml", content, XmlWindow)
    \/ InHead("<article", content, XmlWindow)
    \/ InHead("<pmc-articleset", content, XmlWindow)

\* fetch_pmc_xml_full.is_probably_xml: also accepts the <?xml prologue
is_probably_xml(content) ==
    \/ InHead("<article", content, XmlWindow)
    \/ InHead("<pmc-articleset", content, XmlWindow)
    \/ InHead("<?xml", content, XmlWindow)
    \/ InHead("<xml", content, XmlWindow)

(***************************************************************************)
(* Messages, URLs, paths                                                   *)
(***************************************************************************)
Url(endpoint, id) == [endpoint |-> endpoint, id |-> id]

NoUrl == [endpoint |-> "", id |-> <<>>]

\* an f-string message: its fixed text, the status and the URL put in it
Msg(text, status, url) == [text |-> text, status |-> status, url |-> url]

EmptyMsg == Msg("", 0, NoUrl)

\* os.path.join(out_dir, f"{pmcid}{suffix}")
Path(id, suffix) == [id |-> id, suffix |-> suffix]

NoPath == Path(<<>>, "")

\* open(path, "wb").write(content)
WriteFile(fs, path, content) ==
    [q \in (DOMAIN fs) \cup {path} |-> IF q = path THEN content ELSE fs[q]]

(***************************************************************************)
(* fetch_pmc_xml.py: the three providers                                   *)
(***************************************************************************)
Provider(ok, content, msg) == [ok |-> ok, content |-> content, msg |-> msg]

fetch_from_europe_pmc(pmcid, resp) ==
    LET url == Url("europepmc/fullTextXML", pmcid)
    IN  IF resp.status = 200 /\ resp.content # <<>>
        THEN Provider(TRUE, resp.content, Msg("Europe PMC fullTextXML", 0, url))
        ELSE Provider(FALSE, <<>>, Msg("Europe PMC failed: HTTP", resp.status, url))

fetch_from_ncbi_efetch(pmcid, resp) ==
    LET url == Url("eutils/efetch", pmcid)
    IN  IF resp.status = 200 /\ resp.content # <<>>
        THEN IF HasHtmlMarker(resp.content)
             THEN Provider(FALSE, <<>>,
                           Msg("NCBI efetch returned HTML error payload", 0, NoUrl))
             ELSE Provider(TRUE, resp.content, Msg("NCBI efetch", 0, url))
        ELSE Provider(FALSE, <<>>, Msg("NCBI efetch failed: HTTP", resp.status, url))

fetch_from_pmc_site(pmcid, resp) ==
    LET url == Url("pmc/articles?format=xml", pmcid)
    IN  IF resp.status = 200 /\ resp.content # <<>>
        THEN Provider(TRUE, resp.content, Msg("PMC site format=xml", 0, url))
        ELSE Provider(FALSE, <<>>, Msg("PMC site failed: HTTP", resp.status, url))

\* the order of the last two providers exchanged
AttemptsSwapped == <<"EuropePMC", "PMCsite", "NCBIefetch">>

\* attempts = [("EuropePMC", ...), ("NCBIefetch", ...), ("PMCsite", ...)]
Attempts == <<"EuropePMC", "NCBIefetch", "PMCsite">>

CallProvider(name, pmcid, resp) ==
    CASE name = "EuropePMC" -> fetch_from_europe_pmc(pmcid, resp)
      [] name = "NCBIefetch" -> fetch_from_ncbi_efetch(pmcid, resp)
      [] name = "PMCsite" -> fetch_from_pmc_site(pmcid, resp)

\* a loop that stays on the provider that has just failed
RetrySameProvider(i) == i

\* for name, fn, min_kb in attempts: the step to the next entry
NextAttemptWraps(i) == IF i >= Len(Attempts) THEN 1 ELSE i + 1

NextAttempt(i) == i + 1

\* if ok and content and is_valid_xml(content)
Accepts(r) == r.ok /\ r.content # <<>> /\ is_valid_xml(r.content)

(***************************************************************************)
(* fetch_pmc_xml_full.py: the two providers                                *)
(***************************************************************************)
fetch_europe_pmc(pmcid, resp) ==
    LET url == Url("europepmc/fullTextXML", pmcid)
    IN  IF resp.status = 200 /\ resp.content # <<>> /\ is_probably_xml(resp.content)
        THEN Provider(TRUE, resp.content, Msg("", 0, url))
        ELSE Provider(FALSE, <<>>, Msg("Europe PMC HTTP", resp.status, url))

fetch_ncbi_efetch(pmcid, resp) ==
    LET url == Url("eutils/efetch", pmcid)
    IN  IF resp.status = 200 /\ resp.content # <<>>
        THEN IF HasHtmlMarker(resp.content)
             THEN Provider(FALSE, <<>>, Msg("NCBI efetch returned HTML error", 0, url))
             ELSE IF ~is_probably_xml(resp.content)
             THEN Provider(FALSE, <<>>, Msg("NCBI efetch returned non-XML", 0, url))
             ELSE Provider(TRUE, resp.content, Msg("", 0, url))
        ELSE Provider(FALSE, <<>>, Msg("NCBI efetch HTTP", resp.status, url))

(***************************************************************************)
(* fetch_ncbi_xml of audit_fulltext_coverage, build_step1_stems and        *)
(* replace_bad_item: one request, no fallback                              *)
(***************************************************************************)
\* what one call did: the exception it raised ("" for none), whether the
\* request went out, the files after it, the path returned, whether it wrote
Outcome(exc, requested, id, fs, path, wrote) ==
    [exc |-> exc, requested |-> requested, id |-> id, files |-> fs,
     path |-> path, wrote |-> wrote]

fetch_ncbi_xml_audit(arg, resp, fs) ==
    LET id == normalize_pmcid_audit(arg)
        out_path == Path(id, ".ncbi.xml")
    IN  IF ~is_valid_pmcid(id)
        THEN Outcome("ValueError", FALSE, id, fs, NoPath, FALSE)
        ELSE IF resp.exc
        THEN Outcome("RequestException", TRUE, id, fs, NoPath, FALSE)
        ELSE IF RaisesForStatus(resp)
        THEN Outcome("HTTPError", TRUE, id, fs, NoPath, FALSE)
        ELSE IF HasHtmlMarker(resp.content)
        THEN Outcome("RuntimeError", TRUE, id, fs, NoPath, FALSE)
        ELSE Outcome("", TRUE, id, WriteFile(fs, out_path, resp.content),
                     out_path, TRUE)

\* a fetch that never looks at the cache
FetchNcbiXmlNoCache(arg, resp, fs) ==
    LET id == normalize_pmcid_stems(arg)
        out_path == Path(id, ".ncbi.xml")
    IN  IF resp.exc
        THEN Outcome("RequestException", TRUE, id, fs, NoPath, FALSE)
        ELSE IF RaisesForStatus(resp)
        THEN Outcome("HTTPError", TRUE, id, fs, NoPath, FALSE)
        ELSE IF HasHtmlMarker(resp.content)
        THEN Outcome("RuntimeError", TRUE, id, fs, NoPath, FALSE)
        ELSE Outcome("", TRUE, id, WriteFile(fs, out_path, resp.content),
                     out_path, TRUE)

fetch_ncbi_xml_stems(arg, resp, fs) ==
    LET id == normalize_pmcid_stems(arg)
        out_path == Path(id, ".ncbi.xml")
    IN  IF out_path \in DOMAIN fs /\ ByteLen(fs[out_path]) > 0
        THEN Outcome("", FALSE, id, fs, out_path, FALSE)
        ELSE IF resp.exc
        THEN Outcome("RequestException", TRUE, id, fs, NoPath, FALSE)
        ELSE IF RaisesForStatus(resp)
        THEN Outcome("HTTPError", TRUE, id, fs, NoPath, FALSE)
        ELSE IF HasHtmlMarker(resp.content)
        THEN Outcome("RuntimeError", TRUE, id, fs, NoPath, FALSE)
        ELSE Outcome("", TRUE, id, WriteFile(fs, out_path, resp.content),
                     out_path, TRUE)

fetch_ncbi_xml_replace(arg, resp, fs) ==
    LET id == normalize_pmcid_replace(arg)
        out_path == Path(id, ".ncbi.xml")
    IN  IF ~is_valid_pmcid(id)
        THEN Outcome("ValueError", FALSE, id, fs, NoPath, FALSE)
        ELSE IF resp.exc
        THEN Outcome("RequestException", TRUE, id, fs, NoPath, FALSE)
        ELSE IF RaisesForStatus(resp)
        THEN Outcome("HTTPError", TRUE, id, fs, NoPath, FALSE)
        ELSE IF HasHtmlMarker(resp.content)
        THEN Outcome("RuntimeError", TRUE, id, fs, NoPath, FALSE)
        ELSE Outcome("", TRUE, id, WriteFile(fs, out_path, resp.content),
                     out_path, TRUE)

\* the identifiers handed to the scripts: canonical, missing the prefix,
\* lower case, blank, and not PMC<digits> at all
RawIds ==
    { <<"P", "M", "C", "7">>,
      <<"7">>,
      <<"p", "M", "c", "7", "7">>,
      <<" ">>,
      <<"c", "7">> }

(***************************************************************************)
(* State                                                                   *)
(***************************************************************************)
VARIABLES
    nCopy,      \* normalizer run: the copy of normalize_pmcid under test
    nIn,        \* normalizer run: the raw input
    nOut,       \* normalizer run: the outputs of the successive applications
    files,      \* the working directory tmp/: path -> content
    stored,     \* every cache write so far: identifier, provider, path
    calls,      \* script invocations started so far
    script,     \* the script of the current (or last finished) invocation
    pc,         \* "start" between invocations, else the position inside one
    pmcid,      \* the invocation's normalized identifier
    attempt,    \* fetch_pmc_xml: index of the loop over attempts
    last_msg,   \* fetch_pmc_xml: last_msg
    requested,  \* the requests this invocation has issued, in order
    lastResp,   \* the provider asked last and what it answered
    verdict,    \* what became of lastResp: accepted, rejected or raised
    printed,    \* the SUCCESS line this invocation printed
    result,     \* how the invocation ended: return or raise
    abs_wc,     \* classifier run: word count of the abstract
    body_wc,    \* classifier run: word count of the body
    status,     \* classifier run: row["status"] of audit_fulltext_coverage
    quality_hint, \* classifier run: quality_hint of extract_pmc_text
    questions,  \* batch run: payload["questions"] of the input file
    i,          \* batch run: items the loop of main has gone through
    results,    \* batch run: results / updated / enriched, the rows so far
    sent,       \* batch run: the requests issued, each with its item's index
    faults,     \* batch run: the fetch and parse failures, each with its index
    output,     \* batch run: what main wrote to its output file
    choice_item, \* choice synthesis: the item the loop of main is given
    shuffle_outcome, \* choice synthesis: the outcome of random.shuffle
    filled,     \* choice synthesis: the exception, or the item as filled
    ready,      \* reshaper: the item of seed_pilot_10_ready.json at hand
    out_q,      \* reshaper: the exception, or out_q as appended
    seed,       \* pipeline: the batch files, name -> questions
    lastRun,    \* pipeline: the stage run last and how it ended
    tree,       \* extraction: the parsed tree
    extracted,  \* extraction: extractor -> what it returned
    candidates, \* replacement: the result list of europe_pmc_find_candidates
    chosen,     \* replacement: the candidate chosen, with its body_words
    hits,       \* discovery: the result list of each topic search so far
    picked,     \* discovery: what pick_pmcids returned for each of them
    selected,   \* discovery: selected_pmcids
    discipline_key, \* choice set: the discipline build_choice_set is called with
    choice_set, \* choice set: what build_choice_set returned
    db,         \* import: the committed content of the Postgres tables
    tx,         \* import: the tables as the open connection sees them
    inserted,   \* import: the counter of import_medmcqa.main
    dataset,    \* import: the rows of the MedMCQA split
    limit,      \* import: LIMIT
    med_row,    \* importers: one dataset row handed to both of them
    med_import, \* importers: what import_medmcqa makes of it
    med_seed    \* importers: what build_import_seed_medmcqa makes of it

normVars == <<nCopy, nIn, nOut>>

classVars == <<abs_wc, body_wc, status, quality_hint>>

batchVars == <<questions, i, results, sent, faults, output>>

\* the state of the runs other than the normalizer's and the fetch scripts'
itemVars == <<choice_item, shuffle_outcome, filled>>

reshapeVars == <<ready, out_q>>

pipeVars == <<seed, lastRun>>

extractVars == <<tree, extracted>>

\* the state of the replacement, of the discovery and of the importers
importVars == <<db, tx, inserted, dataset, limit, med_row, med_import, med_seed>>

moreVars == <<candidates, chosen, hits, picked, selected, discipline_key, choice_set,
              importVars>>

restVars == <<classVars, batchVars, itemVars, reshapeVars, pipeVars, extractVars,
              moreVars>>

fetchVars == <<files, stored, calls, script, pc, pmcid, attempt, last_msg,
               requested, lastResp, verdict, printed, result>>

vars == <<nCopy, nIn, nOut, files, stored, calls, script, pc, pmcid, attempt,
          last_msg, requested, lastResp, verdict, printed, result,
          abs_wc, body_wc, status, quality_hint,
          questions, i, results, sent, faults, output,
          choice_item, shuffle_outcome, filled, ready, out_q, seed, lastRun, tree,
          extracted, candidates, chosen, hits, picked, selected, discipline_key,
          choice_set, db, tx, inserted, dataset, limit, med_row, med_import, med_seed>>

NoResp == [provider |-> "", resp |-> RequestException]

NoPrint == [name |-> "", msg |-> EmptyMsg]

Result(kind, exc, path, msg) == [kind |-> kind, exc |-> exc, path |-> path, msg |-> msg]

NoResult == Result("none", "", NoPath, EmptyMsg)

Request(provider, id) == [provider |-> provider, id |-> id]

Stored(id, provider, path) == [id |-> id, provider |-> provider, path |-> path]

\* no script has run: an empty working directory
InitFetch ==
    /\ files = <<>>
    /\ stored = {}
    /\ calls = 0
    /\ script = ""
    /\ pc = "start"
    /\ pmcid = <<>>
    /\ attempt = 0
    /\ last_msg = EmptyMsg
    /\ requested = <<>>
    /\ lastResp = NoResp
    /\ verdict = "none"
    /\ printed = NoPrint
    /\ result = NoResult

\* the normalizer run is not in use
IdleNorm ==
    /\ nCopy = "fetch_pmc_xml"
    /\ nIn = <<>>
    /\ nOut = <<>>

\* the classifier run is not in use
IdleClassify ==
    /\ abs_wc = 0
    /\ body_wc = 0
    /\ status = "None"
    /\ quality_hint = "None"

NoOutput == [written |-> FALSE, questions |-> <<>>]

\* no batch stage is running
IdleBatch ==
    /\ questions = <<>>
    /\ i = 0
    /\ results = <<>>
    /\ sent = <<>>
    /\ faults = <<>>
    /\ output = NoOutput

NoFilled == [exc |-> "none", item |-> <<>>]

\* the choice synthesis is not in use
IdleItem ==
    /\ choice_item = <<>>
    /\ shuffle_outcome = <<>>
    /\ filled = NoFilled

NoOutQ == [exc |-> "none", q |-> <<>>]

\* the reshaper is not in use
IdleReshape ==
    /\ ready = <<>>
    /\ out_q = NoOutQ

NoRun == [stage |-> "", exc |-> ""]

\* no pipeline stage has run: seed/ holds no batch file
IdlePipe ==
    /\ seed = <<>>
    /\ lastRun = NoRun

\* row["abstract_words"] = None, row["body_words"] = None
NoCount == -1

\* nothing has been extracted
NoExtracted == [by |-> "", abstract |-> <<>>, body |-> <<>>, words |-> NoCount]

\* no tree has been parsed
IdleExtract ==
    /\ tree = <<>>
    /\ extracted = NoExtracted

\* no candidate has been looked at
NoChosen == [id |-> <<>>, body_words |-> NoCount]

\* nothing else has run
NoChoiceSet == [texts |-> <<>>, correct_index |-> -1]

\* no table of the database holds a row
EmptyDb == [users |-> {}, questions |-> {}, versions |-> {}, choices |-> <<>>,
            tags |-> {}, links |-> {}]

\* the importers are not in use
IdleImport ==
    /\ db = EmptyDb
    /\ tx = EmptyDb
    /\ inserted = 0
    /\ dataset = <<>>
    /\ limit = 0
    /\ med_row = <<>>
    /\ med_import = <<>>
    /\ med_seed = <<>>

IdleMore ==
    /\ candidates = <<>>
    /\ chosen = NoChosen
    /\ hits = <<>>
    /\ picked = <<>>
    /\ selected = <<>>
    /\ discipline_key = "None"
    /\ choice_set = NoChoiceSet
    /\ IdleImport

IdleRest ==
    /\ IdleClassify /\ IdleBatch /\ IdleItem /\ IdleReshape
    /\ IdlePipe /\ IdleExtract /\ IdleMore

(***************************************************************************)
(* SpecNorm: normalize_pmcid applied to every bounded string               *)
(***************************************************************************)
InitNorm ==
    /\ nCopy \in Copies
    /\ nIn \in Strings(MaxIdLen) \cup {NoneVal}
    /\ nOut = <<>>
    /\ InitFetch
    /\ IdleRest

\* one more application of the copy to its own last output
ApplyNormalize ==
    /\ Len(nOut) < MaxApply
    /\ (nOut # <<>> => nOut[Len(nOut)] # AttributeError)
    /\ nOut' = Append(nOut, normalize_pmcid(nCopy,
                              IF nOut = <<>> THEN nIn ELSE nOut[Len(nOut)]))
    /\ UNCHANGED <<nCopy, nIn>>
    /\ UNCHANGED fetchVars
    /\ UNCHANGED restVars

NextNorm == ApplyNormalize

SpecNorm == InitNorm /\ [][NextNorm]_vars

(***************************************************************************)
(* Spec: the fetch scripts run one after another in one working directory  *)
(***************************************************************************)
\* a new invocation starts with fresh locals; files and their history stay
Begin(name, id, at) ==
    /\ pc = "start"
    /\ calls < MaxCalls
    /\ calls' = calls + 1
    /\ script' = name
    /\ pmcid' = id
    /\ pc' = at

\* fetch_pmc_xml.main: fetch_pmc_xml(sys.argv[1]) up to the loop
FetchPmcXmlStart ==
    \E raw \in RawIds :
        /\ Begin("fetch_pmc_xml", normalize_pmcid_fetch(raw), "loop")
        /\ attempt' = 1
        /\ last_msg' = EmptyMsg
        /\ requested' = <<>>
        /\ lastResp' = NoResp
        /\ verdict' = "none"
        /\ printed' = NoPrint
        /\ result' = NoResult
        /\ UNCHANGED <<files, stored>>

\* one iteration of the loop over attempts
FetchPmcXmlAttempt ==
    /\ script = "fetch_pmc_xml"
    /\ pc = "loop"
    /\ attempt <= Len(Attempts)
    /\ \E resp \in Responses :
        LET name == Attempts[attempt]
            r == CallProvider(name, pmcid, resp)
            out_path == Path(pmcid, ".xml")
        IN  /\ requested' = Append(requested, Request(name, pmcid))
            /\ lastResp' = [provider |-> name, resp |-> resp]
            /\ IF resp.exc
               THEN \* requests.get raises inside try_fetch; nothing catches it
                    /\ verdict' = "raised"
                    /\ result' = Result("raise", "RequestException", NoPath, EmptyMsg)
                    /\ pc' = "start"
                    /\ UNCHANGED <<files, stored, attempt, last_msg, printed>>
               ELSE IF Accepts(r)
               THEN /\ verdict' = "accepted"
                    /\ last_msg' = r.msg
                    /\ files' = WriteFile(files, out_path, r.content)
                    /\ stored' = stored \cup {Stored(pmcid, name, out_path)}
                    /\ printed' = [name |-> name, msg |-> r.msg]
                    /\ result' = Result("return", "", out_path, EmptyMsg)
                    /\ pc' = "start"
                    /\ UNCHANGED attempt
               ELSE /\ verdict' = "rejected"
                    /\ last_msg' = r.msg
                    /\ attempt' = NextAttempt(attempt)
                    /\ UNCHANGED <<files, stored, printed, result, pc>>
    /\ UNCHANGED <<calls, script, pmcid>>

\* the loop is over: raise RuntimeError(... Last: {last_msg})
FetchPmcXmlExhausted ==
    /\ script = "fetch_pmc_xml"
    /\ pc = "loop"
    /\ attempt > Len(Attempts)
    /\ result' = Result("raise", "RuntimeError", NoPath, last_msg)
    /\ pc' = "start"
    /\ UNCHANGED <<files, stored, calls, script, pmcid, attempt, last_msg,
                   requested, lastResp, verdict, printed>>

\* fetch_pmc_xml_full.main up to the first request
FetchFullStart ==
    \E raw \in RawIds :
        /\ Begin("fetch_pmc_xml_full", normalize_pmcid_full(raw), "full_europe")
        /\ attempt' = 0
        /\ last_msg' = EmptyMsg
        /\ requested' = <<>>
        /\ lastResp' = NoResp
        /\ verdict' = "none"
        /\ printed' = NoPrint
        /\ result' = NoResult
        /\ UNCHANGED <<files, stored>>

\* [1/2] Europe PMC, saved to <pmcid>.europepmc.xml
FetchFullEurope ==
    /\ script = "fetch_pmc_xml_full"
    /\ pc = "full_europe"
    /\ \E resp \in Responses :
        LET r == fetch_europe_pmc(pmcid, resp)
            out_epmc == Path(pmcid, ".europepmc.xml")
        IN  /\ requested' = Append(requested, Request("EuropePMC", pmcid))
            /\ lastResp' = [provider |-> "EuropePMC", resp |-> resp]
            /\ IF resp.exc
               THEN /\ verdict' = "raised"
                    /\ result' = Result("raise", "RequestException", NoPath, EmptyMsg)
                    /\ pc' = "start"
                    /\ UNCHANGED <<files, stored, last_msg>>
               ELSE IF r.ok /\ r.content # <<>>
               THEN /\ verdict' = "accepted"
                    /\ files' = WriteFile(files, out_epmc, r.content)
                    /\ stored' = stored \cup {Stored(pmcid, "EuropePMC", out_epmc)}
                    /\ last_msg' = r.msg
                    /\ pc' = "full_ncbi"
                    /\ UNCHANGED result
               ELSE /\ verdict' = "rejected"
                    /\ last_msg' = r.msg
                    /\ pc' = "full_ncbi"
                    /\ UNCHANGED <<files, stored, result>>
    /\ UNCHANGED <<calls, script, pmcid, attempt, printed>>

\* [2/2] NCBI efetch, saved to <pmcid>.ncbi.xml
FetchFullNcbi ==
    /\ script = "fetch_pmc_xml_full"
    /\ pc = "full_ncbi"
    /\ \E resp \in Responses :
        LET r == fetch_ncbi_efetch(pmcid, resp)
            out_ncbi == Path(pmcid, ".ncbi.xml")
        IN  /\ requested' = Append(requested, Request("NCBIefetch", pmcid))
            /\ lastResp' = [provider |-> "NCBIefetch", resp |-> resp]
            /\ pc' = "start"
            /\ IF resp.exc
               THEN /\ verdict' = "raised"
                    /\ result' = Result("raise", "RequestException", NoPath, EmptyMsg)
                    /\ UNCHANGED <<files, stored, last_msg>>
               ELSE IF r.ok /\ r.content # <<>>
               THEN /\ verdict' = "accepted"
                    /\ files' = WriteFile(files, out_ncbi, r.content)
                    /\ stored' = stored \cup {Stored(pmcid, "NCBIefetch", out_ncbi)}
                    /\ last_msg' = r.msg
                    /\ result' = Result("return", "", NoPath, EmptyMsg)
               ELSE /\ verdict' = "rejected"
                    /\ last_msg' = r.msg
                    /\ result' = Result("return", "", NoPath, EmptyMsg)
                    /\ UNCHANGED <<files, stored>>
    /\ UNCHANGED <<calls, script, pmcid, attempt, printed>>

\* what a single fetch_ncbi_xml call leaves behind
AfterFetchNcbiXml(o, resp) ==
    /\ requested' = IF o.requested THEN <<Request("NCBIefetch", o.id)>> ELSE <<>>
    /\ lastResp' = IF o.requested
                   THEN [provider |-> "NCBIefetch", resp |-> resp] ELSE NoResp
    /\ verdict' = CASE ~o.requested -> "none"
                    [] o.exc = "RequestException" -> "raised"
                    [] o.exc # "" -> "rejected"
                    [] OTHER -> "accepted"
    /\ files' = o.files
    /\ stored' = IF o.wrote
                 THEN stored \cup {Stored(o.id, "NCBIefetch", o.path)} ELSE stored
    /\ result' = IF o.exc = "" THEN Result("return", "", o.path, EmptyMsg)
                 ELSE Result("raise", o.exc, NoPath, EmptyMsg)
    /\ attempt' = 0
    /\ last_msg' = EmptyMsg
    /\ printed' = NoPrint

\* audit_fulltext_coverage.main, one item up to the fetch: a blank identifier
\* raises ValueError("missing_pmcid") before fetch_ncbi_xml is called
AuditItemFetch ==
    \E raw \in RawIds \cup {NoneVal}, resp \in Responses :
        LET id == normalize_pmcid_audit(raw)
            o == IF id = <<>>
                 THEN Outcome("ValueError", FALSE, id, files, NoPath, FALSE)
                 ELSE fetch_ncbi_xml_audit(id, resp, files)
        IN  /\ Begin("audit_fulltext_coverage", id, "start")
            /\ AfterFetchNcbiXml(o, resp)

\* build_step1_stems.main, one item up to the fetch: a blank identifier
\* raises ValueError before fetch_ncbi_xml is called
StemsItemFetch ==
    \E raw \in RawIds \cup {NoneVal}, resp \in Responses :
        LET id == normalize_pmcid_stems(raw)
            o == IF id = <<>>
                 THEN Outcome("ValueError", FALSE, id, files, NoPath, FALSE)
                 ELSE fetch_ncbi_xml_stems(id, resp, files)
        IN  /\ Begin("build_step1_stems", id, "start")
            /\ AfterFetchNcbiXml(o, resp)

\* replace_bad_item.main, one candidate up to the fetch: a candidate that is
\* blank, not PMC<digits>, or already in the batch is skipped
ReplaceCandidateFetch ==
    \E raw \in RawIds \cup {NoneVal}, resp \in Responses, existing \in BOOLEAN :
        LET id == normalize_pmcid_replace(raw)
            o == IF id = <<>> \/ ~is_valid_pmcid(id) \/ existing
                 THEN Outcome("", FALSE, id, files, NoPath, FALSE)
                 ELSE fetch_ncbi_xml_replace(id, resp, files)
        IN  /\ Begin("replace_bad_item", id, "start")
            /\ AfterFetchNcbiXml(o, resp)

Init == IdleNorm /\ InitFetch /\ IdleRest

Next ==
    \/ (FetchPmcXmlStart /\ UNCHANGED <<normVars, restVars>>)
    \/ (FetchPmcXmlAttempt /\ UNCHANGED <<normVars, restVars>>)
    \/ (FetchPmcXmlExhausted /\ UNCHANGED <<normVars, restVars>>)
    \/ (FetchFullStart /\ UNCHANGED <<normVars, restVars>>)
    \/ (FetchFullEurope /\ UNCHANGED <<normVars, restVars>>)
    \/ (FetchFullNcbi /\ UNCHANGED <<normVars, restVars>>)
    \/ (AuditItemFetch /\ UNCHANGED <<normVars, restVars>>)
    \/ (StemsItemFetch /\ UNCHANGED <<normVars, restVars>>)
    \/ (ReplaceCandidateFetch /\ UNCHANGED <<normVars, restVars>>)

Spec == Init /\ [][Next]_vars

(***************************************************************************)
(* SpecPmcXml: fetch_pmc_xml alone, invoked again and again                *)
(***************************************************************************)
NextPmcXml ==
    \/ (FetchPmcXmlStart /\ UNCHANGED <<normVars, restVars>>)
    \/ (FetchPmcXmlAttempt /\ UNCHANGED <<normVars, restVars>>)
    \/ (FetchPmcXmlExhausted /\ UNCHANGED <<normVars, restVars>>)

SpecPmcXml == Init /\ [][NextPmcXml]_vars

(***************************************************************************)
(* Properties                                                              *)
(***************************************************************************)
\* the order of providers the specification states
ProviderOrder == <<"EuropePMC", "NCBIefetch", "PMCsite">>

\* a response the Multi-Source Fetcher is to accept: status 200, not empty,
\* no HTML marker in the head, XML-like
AcceptablePayload(resp) ==
    /\ ~resp.exc
    /\ resp.status = 200
    /\ resp.content # <<>>
    /\ ~HasHtmlMarker(resp.content)
    /\ is_valid_xml(resp.content)

InFetchPmcXml == script = "fetch_pmc_xml"

Answered == lastResp # NoResp /\ ~lastResp.resp.exc

\* C1: in fetch_pmc_xml, when Europe PMC has failed and NCBI efetch answers
\* with an acceptable payload, the call returns, the file it returns holds
\* the bytes NCBI efetch sent, the SUCCESS line names NCBI efetch and its URL,
\* and the PMC site has not been asked.
C1_SecondProviderWins ==
    (InFetchPmcXml /\ lastResp.provider = "NCBIefetch"
        /\ AcceptablePayload(lastResp.resp))
    => /\ result.kind = "return"
       /\ result.path \in DOMAIN files
       /\ files[result.path] = lastResp.resp.content
       /\ printed.name = "NCBIefetch"
       /\ printed.msg = Msg("NCBI efetch", 0, Url("eutils/efetch", pmcid))
       /\ requested = <<Request("EuropePMC", pmcid), Request("NCBIefetch", pmcid)>>
       /\ pc = "start"

C1_Witness ==
    /\ InFetchPmcXml
    /\ lastResp.provider = "NCBIefetch"
    /\ AcceptablePayload(lastResp.resp)
    /\ verdict = "accepted"
    /\ Len(requested) = 2

\* C2: within one fetch_pmc_xml call the providers are asked in the order
\* Europe PMC, NCBI efetch, PMC site, each at most once, and the provider
\* whose payload was accepted is the last one asked.
C2_OrderedAtMostOnce ==
    InFetchPmcXml
    => /\ Len(requested) <= Len(ProviderOrder)
       /\ \A k \in 1..Len(requested) : requested[k].provider = ProviderOrder[k]
       /\ \A j, k \in 1..Len(requested) :
            j # k => requested[j].provider # requested[k].provider
       /\ (result.kind = "return"
            => /\ requested[Len(requested)].provider = printed.name
               /\ pc = "start")

C2_Witness ==
    /\ InFetchPmcXml
    /\ Len(requested) = 3
    /\ result.exc = "RuntimeError"
    /\ last_msg.text = "PMC site failed: HTTP"

\* C3: a response whose first 200 bytes hold "<html" (any letter case) is
\* never accepted, whichever provider or script received it.
C3_HtmlAlwaysRejected ==
    (Answered /\ HasHtmlMarker(lastResp.resp.content)) => verdict # "accepted"

\* C4: a response with a status outside 2xx, or with an empty payload, is
\* never accepted (reported as success, written to the cache path).
C4_FailedOrEmptyRejected ==
    (Answered /\ (lastResp.resp.status \notin 200..299 \/ lastResp.resp.content = <<>>))
    => verdict # "accepted"

\* C5: in fetch_pmc_xml a network failure (status outside 2xx, or an exception
\* from the request) or a malformed payload at the first or second provider
\* does not fail the call: the next provider is tried.
C5_FailureFallsThrough ==
    (InFetchPmcXml /\ lastResp.provider \in {"EuropePMC", "NCBIefetch"}
        /\ ~AcceptablePayload(lastResp.resp))
    => /\ result.kind # "raise"
       /\ pc = "loop"

FailureTexts ==
    {"Europe PMC failed: HTTP", "NCBI efetch failed: HTTP",
     "NCBI efetch returned HTML error payload", "PMC site failed: HTTP"}

\* C6: when fetch_pmc_xml raises after the last provider, the message it
\* carries is a failure message, never a success provenance.
C6_DiagnosticIsFailure ==
    (InFetchPmcXml /\ result.exc = "RuntimeError") => result.msg.text \in FailureTexts

\* C7: payloads accepted from two different providers for one identifier
\* are stored at two different paths.
C7_PathPerProvider ==
    \A a, b \in stored :
        (a.id = b.id /\ a.provider # b.provider) => a.path # b.path

\* C8: no request is issued for an identifier that fails ^PMC[0-9]+$.
C8_OnlyValidIdsRequested ==
    \A k \in 1..Len(requested) : is_valid_pmcid(requested[k].id)

\* the canonical form of the data model: PMC<digits>, upper case
IsCanonical(s) ==
    /\ Len(s) >= 4
    /\ SubSeq(s, 1, 3) = PMC
    /\ \A k \in 4..Len(s) : s[k] \in Digits

\* empty or whitespace only
IsBlank(s) == \A k \in 1..Len(s) : s[k] \in Whitespace

Applied(k) == Len(nOut) >= k /\ nOut[k] # AttributeError

\* C9: normalize_pmcid puts PMC once in front of a non-blank identifier that
\* lacks it after strip and upper, returns a canonical identifier unchanged,
\* and applied again to its own output it returns that output.
C9_NormalizeIdempotent ==
    Applied(1)
    => LET t == Upper(Strip(OrEmpty(nIn)))
       IN  /\ (t # <<>> /\ ~StartsWith(t, PMC)) => nOut[1] = PMC \o t
           /\ (t # <<>> /\ StartsWith(t, PMC)) => nOut[1] = t
           /\ IsCanonical(nIn) => nOut[1] = nIn
           /\ \A k \in 2..Len(nOut) : nOut[k] = nOut[1]

C9_Witness ==
    /\ nIn = <<" ", "c", "7", " ">>
    /\ Len(nOut) = MaxApply
    /\ nOut[MaxApply] = <<"P", "M", "C", "C", "7">>

\* C10: every copy of normalize_pmcid returns "" for a blank input.
C10_BlankGivesEmpty ==
    (Applied(1) /\ nIn # NoneVal /\ IsBlank(nIn)) => nOut[1] = <<>>

(***************************************************************************)
(* SpecClassify: the two quality classifiers on every pair of word counts  *)
(***************************************************************************)
MaxWords == 201

AuditStatusStrict(abstract_words, body_words) ==
    IF body_words > 200 THEN "OK_FULLTEXT"
    ELSE IF abstract_words >= 80 \/ body_words >= 80 THEN "SHORT_TEXT"
    ELSE "TOO_LITTLE_TEXT"

\* audit_fulltext_coverage.main: row["status"] from the two word counts
audit_status(abstract_words, body_words) ==
    IF body_words >= 200 THEN "OK_FULLTEXT"
    ELSE IF abstract_words >= 80 \/ body_words >= 80 THEN "SHORT_TEXT"
    ELSE "TOO_LITTLE_TEXT"

\* extract_pmc_text.summarize_extraction: quality_hint from the word counts
\* of the abstract and of the body
summarize_extraction(a_wc, b_wc) ==
    IF b_wc >= 200 THEN "body_text_available"
    ELSE IF a_wc >= 80 \/ b_wc >= 80 THEN "abstract_only_or_short_body"
    ELSE "too_little_text"

InitClassify ==
    /\ abs_wc \in 0..MaxWords
    /\ body_wc \in 0..MaxWords
    /\ status = "None"
    /\ quality_hint = "None"
    /\ IdleNorm
    /\ InitFetch
    /\ IdleBatch /\ IdleItem /\ IdleReshape /\ IdlePipe /\ IdleExtract
    /\ IdleMore

\* the audit classifies the pair
ClassifyAudit ==
    /\ status = "None"
    /\ status' = audit_status(abs_wc, body_wc)
    /\ UNCHANGED <<abs_wc, body_wc, quality_hint>>
    /\ UNCHANGED <<normVars, fetchVars, batchVars, itemVars, reshapeVars,
                    pipeVars, extractVars, moreVars>>

\* extract_pmc_text classifies the pair
ClassifyExtract ==
    /\ quality_hint = "None"
    /\ quality_hint' = summarize_extraction(abs_wc, body_wc)
    /\ UNCHANGED <<abs_wc, body_wc, status>>
    /\ UNCHANGED <<normVars, fetchVars, batchVars, itemVars, reshapeVars,
                    pipeVars, extractVars, moreVars>>

NextClassify == ClassifyAudit \/ ClassifyExtract

SpecClassify == InitClassify /\ [][NextClassify]_vars

\* the tier a classifier's answer stands for
TierOf(answer) ==
    CASE answer \in {"OK_FULLTEXT", "body_text_available"} -> "full-text"
      [] answer \in {"SHORT_TEXT", "abstract_only_or_short_body"} -> "short"
      [] answer \in {"TOO_LITTLE_TEXT", "too_little_text"} -> "too-little"
      [] OTHER -> "none"

\* the tier the rule assigns to a pair of word counts
RuleTier(a, b) ==
    IF b >= 200 THEN "full-text"
    ELSE IF a >= 80 \/ b >= 80 THEN "short"
    ELSE "too-little"

\* C11: the classification is a total function of the two word counts: body
\* >= 200 gives the full-text tier, otherwise abstract >= 80 or body >= 80
\* gives the short tier, otherwise too-little; (79,0) is too-little, (80,0)
\* and (0,199) are short, (0,200) is full-text; and the classifier of the
\* audit and the one of extract_pmc_text give the same tier on every input.
C11_ClassifiersAgree ==
    /\ status # "None" => TierOf(status) = RuleTier(abs_wc, body_wc)
    /\ quality_hint # "None" => TierOf(quality_hint) = RuleTier(abs_wc, body_wc)
    /\ (status # "None" /\ quality_hint # "None")
        => TierOf(status) = TierOf(quality_hint)
    /\ (status # "None" /\ abs_wc = 79 /\ body_wc = 0) => status = "TOO_LITTLE_TEXT"
    /\ (status # "None" /\ abs_wc = 80 /\ body_wc = 0) => status = "SHORT_TEXT"
    /\ (status # "None" /\ abs_wc = 0 /\ body_wc = 199) => status = "SHORT_TEXT"
    /\ (status # "None" /\ abs_wc = 0 /\ body_wc = 200) => status = "OK_FULLTEXT"

C11_Witness ==
    /\ abs_wc = 0
    /\ body_wc = 200
    /\ status = "OK_FULLTEXT"
    /\ quality_hint = "body_text_available"

(***************************************************************************)
(* SpecBatch: the main of audit_fulltext_coverage, build_step1_stems and   *)
(* enrich_metadata run over one input batch                                *)
(***************************************************************************)
\* longest batch handed to the audit and to the enrichment
MaxItems == 2

\* build_step1_stems.main: len(questions) != 10
ExpectedLen == 10

\* an item of questions[]: external_refs.pmcid, and the PMC identifier that
\* PMC_ID_RE finds in question.bibliography[].url (<<>> when none)
Item(raw, url) == [pmcid |-> raw, url |-> url]

Items == [pmcid : RawIds \cup {NoneVal}, url : {<<>>, <<"P", "M", "C", "7">>}]

\* the item ingest_pilot.transform_to_question builds for PMC7
Ordinary == Item(<<"P", "M", "C", "7">>, <<"P", "M", "C", "7">>)

\* a batch of n items, all ordinary but the k-th
BatchWith(n, k, it) == [j \in 1..n |-> IF j = k THEN it ELSE Ordinary]

BatchStages == {"audit_fulltext_coverage", "build_step1_stems", "enrich_metadata"}

\* the input files: build_step1_stems is given 10 items, or one too few
BatchesFor(stage) ==
    IF stage = "build_step1_stems"
    THEN {BatchWith(ExpectedLen, k, it) : k \in 1..ExpectedLen, it \in Items}
            \cup {BatchWith(ExpectedLen - 1, 1, Ordinary)}
    ELSE {<<>>} \cup UNION {{BatchWith(n, k, it) : k \in 1..n, it \in Items}
                             : n \in 1..MaxItems}

\* tmp/ before the stage runs: empty, or holding PMC7.ncbi.xml already
InitialCaches ==
    {<<>>, WriteFile(<<>>, Path(<<"P", "M", "C", "7">>, ".ncbi.xml"), <<"<article">>)}

\* the word counts of abstract and body that an article yields
WordPairs == {<<0, 0>>, <<80, 0>>, <<0, 200>>}

\* load_xml: ET.fromstring succeeds when, after an optional <?xml prologue,
\* the data starts with the root element; empty data, a prologue alone and
\* text before the root raise ParseError
load_xml(data) ==
    LET rest == IF data # <<>> /\ Head(data) = "<?xml" THEN Tail(data) ELSE data
    IN  rest # <<>> /\ Head(rest) \in {"<article", "<html", "<HTML"}

\* enrich_metadata.get_pmcid_from_item
get_pmcid_from_item(item) ==
    IF item.pmcid # NoneVal /\ Strip(item.pmcid) # <<>>
    THEN Upper(Strip(item.pmcid))
    ELSE IF item.url # <<>> THEN Upper(item.url)
    ELSE NoneVal

\* europe_pmc_lookup_by_pmcid followed by the rest of enrich_question_item:
\* the exception, or what europe_pmc_lookup records
europe_pmc_lookup(resp, found) ==
    IF resp.exc THEN "RequestException"
    ELSE IF RaisesForStatus(resp) THEN "HTTPError"
    ELSE IF found THEN "found" ELSE "not_found"

Row(index, id, abstract_words, body_words, st, error) ==
    [index |-> index, pmcid |-> id, abstract_words |-> abstract_words,
     body_words |-> body_words, status |-> st, error |-> error]

AuditRowTiersUnparsed(index, id, o, words) ==
    IF o.exc # ""
    THEN Row(index, id, NoCount, NoCount, "ERROR", o.exc)
    ELSE Row(index, id, words[1], words[2], audit_status(words[1], words[2]), "None")

\* audit_fulltext_coverage.main, the row of one item: what the try block
\* raises makes an ERROR row, else the word counts make the status
audit_row(index, id, o, words) ==
    IF o.exc # ""
    THEN Row(index, id, NoCount, NoCount, "ERROR", o.exc)
    ELSE IF ~load_xml(o.files[o.path])
    THEN Row(index, id, NoCount, NoCount, "ERROR", "ParseError")
    ELSE Row(index, id, words[1], words[2], audit_status(words[1], words[2]), "None")

Sent(index, id) == [index |-> index, id |-> id]

Fault(index, exc) == [index |-> index, exc |-> exc]

InitBatch ==
    /\ script \in BatchStages
    /\ questions \in BatchesFor(script)
    /\ files \in InitialCaches
    /\ pc = "main"
    /\ i = 0
    /\ results = <<>>
    /\ sent = <<>>
    /\ faults = <<>>
    /\ output = NoOutput
    /\ result = NoResult
    /\ stored = {}
    /\ calls = 0
    /\ pmcid = <<>>
    /\ attempt = 0
    /\ last_msg = EmptyMsg
    /\ requested = <<>>
    /\ lastResp = NoResp
    /\ verdict = "none"
    /\ printed = NoPrint
    /\ IdleNorm
    /\ IdleClassify /\ IdleItem /\ IdleReshape /\ IdlePipe /\ IdleExtract
    /\ IdleMore

batchFrame == <<normVars, classVars, itemVars, reshapeVars, pipeVars, extractVars, moreVars, stored, calls, pmcid, attempt, last_msg,
                requested, lastResp, verdict, printed, script, questions>>

\* main raises: nothing more runs, no output file
MainRaises(exc) ==
    /\ pc' = "done"
    /\ result' = Result("raise", exc, NoPath, EmptyMsg)
    /\ UNCHANGED <<results, output>>

\* main up to its loop: the input checks
BatchStart ==
    /\ script \in BatchStages
    /\ pc = "main"
    /\ IF script = "build_step1_stems"
       THEN IF Len(questions) # ExpectedLen
            THEN MainRaises("ValueError")
            ELSE pc' = "loop" /\ UNCHANGED <<result, results, output>>
       ELSE IF questions = <<>>
            THEN MainRaises("ValueError")
            ELSE pc' = "loop" /\ UNCHANGED <<result, results, output>>
    /\ UNCHANGED <<i, sent, faults, files>>
    /\ UNCHANGED batchFrame

\* audit_fulltext_coverage.main, one iteration of the loop: everything the
\* try block raises becomes an ERROR row, and the loop goes on
AuditItem ==
    /\ script = "audit_fulltext_coverage"
    /\ pc = "loop"
    /\ i < Len(questions)
    /\ \E resp \in Responses, words \in WordPairs :
        LET index == i + 1
            id == normalize_pmcid_audit(questions[index].pmcid)
            o == IF id = <<>>
                 THEN Outcome("missing_pmcid", FALSE, id, files, NoPath, FALSE)
                 ELSE fetch_ncbi_xml_audit(id, resp, files)
            parsed == o.exc = "" /\ load_xml(o.files[o.path])
            row == audit_row(index, id, o, words)
        IN  /\ results' = Append(results, row)
            /\ files' = o.files
            /\ sent' = IF o.requested THEN Append(sent, Sent(index, o.id)) ELSE sent
            /\ faults' = IF o.requested /\ o.exc # ""
                         THEN Append(faults, Fault(index, o.exc))
                         ELSE IF o.exc = "" /\ ~parsed
                         THEN Append(faults, Fault(index, "ParseError"))
                         ELSE faults
            /\ i' = index
    /\ UNCHANGED <<pc, result, output>>
    /\ UNCHANGED batchFrame

\* build_step1_stems.main, one iteration of the loop: no try block, so a
\* missing identifier, a failed fetch and a failed parse all leave main
StemsItem ==
    /\ script = "build_step1_stems"
    /\ pc = "loop"
    /\ i < Len(questions)
    /\ \E resp \in Responses :
        LET index == i + 1
            id == normalize_pmcid_stems(questions[index].pmcid)
            o == IF id = <<>>
                 THEN Outcome("ValueError", FALSE, id, files, NoPath, FALSE)
                 ELSE fetch_ncbi_xml_stems(id, resp, files)
            parsed == o.exc = "" /\ load_xml(o.files[o.path])
        IN  /\ files' = o.files
            /\ sent' = IF o.requested THEN Append(sent, Sent(index, o.id)) ELSE sent
            /\ faults' = IF o.requested /\ o.exc # ""
                         THEN Append(faults, Fault(index, o.exc))
                         ELSE IF o.exc = "" /\ ~parsed
                         THEN Append(faults, Fault(index, "ParseError"))
                         ELSE faults
            /\ i' = index
            /\ IF o.exc # "" THEN MainRaises(o.exc)
               ELSE IF ~parsed THEN MainRaises("ParseError")
               ELSE /\ results' = Append(results,
                                     [index |-> index, pmcid |-> id, stem |-> "built"])
                    /\ UNCHANGED <<pc, result, output>>
    /\ UNCHANGED batchFrame

\* enrich_metadata.main, one iteration of the loop: enrich_question_item
\* returns early on a missing identifier, its exceptions are caught
EnrichItem ==
    /\ script = "enrich_metadata"
    /\ pc = "loop"
    /\ i < Len(questions)
    /\ \E resp \in Responses, found \in BOOLEAN :
        LET index == i + 1
            id == get_pmcid_from_item(questions[index])
            lookup == IF id = NoneVal THEN "missing_pmcid"
                      ELSE europe_pmc_lookup(resp, found)
        IN  /\ results' = Append(results,
                                 [index |-> index, pmcid |-> id, lookup |-> lookup])
            /\ sent' = IF id # NoneVal THEN Append(sent, Sent(index, id)) ELSE sent
            /\ faults' = IF lookup \in {"RequestException", "HTTPError"}
                         THEN Append(faults, Fault(index, lookup)) ELSE faults
            /\ i' = index
    /\ UNCHANGED <<pc, result, output, files>>
    /\ UNCHANGED batchFrame

\* after the loop: main writes its output file and returns
BatchFinish ==
    /\ script \in BatchStages
    /\ pc = "loop"
    /\ i = Len(questions)
    /\ pc' = "done"
    /\ output' = [written |-> TRUE, questions |-> results]
    /\ result' = Result("return", "", NoPath, EmptyMsg)
    /\ UNCHANGED <<i, results, sent, faults, files>>
    /\ UNCHANGED batchFrame

NextBatch ==
    \/ BatchStart
    \/ AuditItem
    \/ StemsItem
    \/ EnrichItem
    \/ BatchFinish

SpecBatch == InitBatch /\ [][NextBatch]_vars

\* the batch passed the checks main makes before its loop
InputAccepted ==
    IF script = "build_step1_stems" THEN Len(questions) = ExpectedLen
    ELSE questions # <<>>

\* C12: in the main of the audit and of build_step1_stems a fetch or parse
\* failure on item k ends in a row for item k with status ERROR and the
\* message, without word counts, and does not abort the batch: main does not
\* raise, every item is processed and the output file is written.
C12_FailureKeepsBatchGoing ==
    (script \in {"audit_fulltext_coverage", "build_step1_stems"})
    => /\ \A f \in 1..Len(faults) :
            LET k == faults[f].index
            IN  /\ result.kind # "raise"
                /\ Len(results) >= k
                /\ results[k].status = "ERROR"
                /\ results[k].error = faults[f].exc
                /\ results[k].body_words = NoCount
       /\ (pc = "done" /\ InputAccepted /\ faults # <<>>)
            => /\ output.written
               /\ Len(output.questions) = Len(questions)

\* the item has no identifier, as the stage itself reads it
MissingId(k) ==
    IF script = "enrich_metadata" THEN get_pmcid_from_item(questions[k]) = NoneVal
    ELSE Strip(OrEmpty(questions[k].pmcid)) = <<>>

\* C13: in the main of the audit, of enrich_metadata and of
\* build_step1_stems an item whose identifier is missing or blank is given
\* up alone: no request is issued for it, main does not raise, and the
\* remaining items are processed and written.
C13_MissingIdSkipsOneItem ==
    \A k \in 1..i :
        MissingId(k)
        => /\ \A s \in 1..Len(sent) : sent[s].index # k
           /\ result.kind # "raise"
           /\ pc = "done" => (output.written /\ Len(output.questions) = Len(questions))

(***************************************************************************)
(* SpecStemsFetch: build_step1_stems fetches item after item into one tmp/ *)
(***************************************************************************)
NextStemsFetch == StemsItemFetch /\ UNCHANGED <<normVars, restVars>>

SpecStemsFetch == Init /\ [][NextStemsFetch]_vars

\* C14: build_step1_stems.fetch_ncbi_xml called for an identifier whose cache
\* file exists and is not empty returns that path, issues no request and
\* leaves the files as they are; a request goes out only when the file is
\* absent or empty.
C14_CacheHitSkipsRequest ==
    [][(script' = "build_step1_stems" /\ calls' = calls + 1)
        => LET out_path == Path(pmcid', ".ncbi.xml")
               hit == out_path \in DOMAIN files /\ ByteLen(files[out_path]) > 0
           IN  /\ hit => /\ requested' = <<>>
                         /\ files' = files
                         /\ result' = Result("return", "", out_path, EmptyMsg)
               /\ requested' # <<>> => ~hit]_vars

C14_Witness ==
    /\ script = "build_step1_stems"
    /\ calls = 2
    /\ requested = <<>>
    /\ result.kind = "return"
    /\ result.path \in DOMAIN files
    /\ ByteLen(files[result.path]) > 0

(***************************************************************************)
(* Question items: str values are sequences of tokens, " " is whitespace   *)
(***************************************************************************)
Choice(label, text, is_correct, explanation) ==
    [label |-> label, text |-> text, is_correct |-> is_correct,
     explanation |-> explanation]

\* the five choices of ingest_pilot.transform_to_question and of
\* replace_bad_item.build_item_from_candidate: A to E, B correct
PlaceholderChoices ==
    << Choice("A", <<"[PLACEHOLDER]", " ", "Option", " ", "A">>, FALSE,
              <<"[PLACEHOLDER]", " ", "Why", " ", "wrong">>),
       Choice("B", <<"[PLACEHOLDER]", " ", "Option", " ", "B">>, TRUE,
              <<"[PLACEHOLDER]", " ", "Why", " ", "correct">>),
       Choice("C", <<"[PLACEHOLDER]", " ", "Option", " ", "C">>, FALSE,
              <<"[PLACEHOLDER]", " ", "Why", " ", "wrong">>),
       Choice("D", <<"[PLACEHOLDER]", " ", "Option", " ", "D">>, FALSE,
              <<"[PLACEHOLDER]", " ", "Why", " ", "wrong">>),
       Choice("E", <<"[PLACEHOLDER]", " ", "Option", " ", "E">>, FALSE,
              <<"[PLACEHOLDER]", " ", "Why", " ", "wrong">>) >>

PlaceholderStem == <<"[PLACEHOLDER]", " ", "Rewrite">>

QuestionItem(id, stem, prompt, choices) ==
    [pmcid |-> id, stem |-> stem, prompt |-> prompt, choices |-> choices]

\* ingest_pilot.transform_to_question
transform_to_question(id) ==
    QuestionItem(id, PlaceholderStem, NoneVal, PlaceholderChoices)

\* replace_bad_item.build_item_from_candidate
build_item_from_candidate(id) ==
    QuestionItem(normalize_pmcid_replace(id), PlaceholderStem, NoneVal,
                 PlaceholderChoices)

\* keyword in s
Contains(s, keyword) == \E k \in 1..Len(s) : s[k] = keyword

(***************************************************************************)
(* build_choices_and_explanations                                          *)
(***************************************************************************)
IsPlaceholderNever(s) == FALSE

\* is_placeholder: the marker is in the string
is_placeholder(s) == Contains(s, "[PLACEHOLDER]")

EnsureLabelsAllA(choices) ==
    [k \in 1..Len(choices) |-> [choices[k] EXCEPT !.label = "A"]]

\* ensure_choice_labels: A to E by position, the old label beyond E
ensure_choice_labels(choices) ==
    LET expected == <<"A", "B", "C", "D", "E">>
    IN  [k \in 1..Len(choices) |->
            IF k <= Len(expected) THEN [choices[k] EXCEPT !.label = expected[k]]
            ELSE choices[k]]

\* pick_discipline_hint: the first keyword list that the stem hits
pick_discipline_hint(stem) ==
    IF Contains(stem, "murmur") THEN "cardio"
    ELSE IF Contains(stem, "jaundice") THEN "gi_hepato"
    ELSE IF Contains(stem, "crackles") THEN "pulm"
    ELSE IF Contains(stem, "hyponatremia") THEN "endo"
    ELSE IF Contains(stem, "proteinuria") THEN "renal"
    ELSE "general"

Disciplines == {"cardio", "gi_hepato", "pulm", "endo", "renal", "general"}

\* pools: the five texts of a discipline, text n of pool d written <<d, n>>;
\* an unknown discipline gets the general pool
Pool(discipline) ==
    LET d == IF discipline \in Disciplines THEN discipline ELSE "general"
    IN  << <<d, "t0">>, <<d, "t1">>, <<d, "t2">>, <<d, "t3">>, <<d, "t4">> >>

\* the outcomes of random.shuffle on the four distractors
Shuffles == {p \in [1..4 -> 1..4] : \A a, b \in 1..4 : a # b => p[a] # p[b]}

BuildChoiceSetCorrectFirst(discipline, shuffle) ==
    LET opts == Pool(discipline)
        distractors == <<opts[1], opts[3], opts[4], opts[5]>>
        shuffled == [k \in 1..4 |-> distractors[shuffle[k]]]
    IN  <<opts[2], shuffled[1], shuffled[2], shuffled[3], shuffled[4]>>

\* build_choice_set: the correct text stays second, the distractors are
\* shuffled around it; correct_index is 1, the second position
build_choice_set(discipline, shuffle) ==
    LET opts == Pool(discipline)
        distractors == <<opts[1], opts[3], opts[4], opts[5]>>
        shuffled == [k \in 1..4 |-> distractors[shuffle[k]]]
    IN  <<shuffled[1], opts[2], shuffled[2], shuffled[3], shuffled[4]>>

\* _stem_signal: the first two signals the stem shows, else a fixed phrase
stem_signal(stem) ==
    LET hit(keyword, signal) == IF Contains(stem, keyword) THEN <<signal>> ELSE <<>>
        signals == hit("fever", "inflammation") \o hit("bp", "instability")
                   \o hit("anemia", "turnover") \o hit("diabetes", "risk")
                   \o hit("weakness", "proximal") \o hit("hyperpigmented", "pigment")
    IN  IF signals = <<>> THEN <<"key", " ", "clues">>
        ELSE IF Len(signals) = 1 THEN signals
        ELSE <<signals[1], ",", " ", signals[2]>>

\* the branch of _choice_specific_wrong_rationale a text falls into: the
\* branch written for it, except that "unconjugated hyperbilirubinemia"
\* hits the common-bile-duct branch, "immune complex" of the general pool
\* hits the post-streptococcal branch, and the other general texts hit none
WrongBranch(text) ==
    IF text = <<"gi_hepato", "t1">> THEN <<"gi_hepato", "t0">>
    ELSE IF text = <<"general", "t3">> THEN <<"renal", "t3">>
    ELSE IF text[1] = "general" THEN <<"fallback">>
    ELSE text

\* _choice_specific_wrong_rationale: the sentence of the branch around sig
choice_specific_wrong_rationale(chosen_text, stem) ==
    <<"Wrong", ":">> \o WrongBranch(chosen_text) \o <<" ">> \o stem_signal(stem)

ExplainChoiceBlankWhenWrong(is_correct, chosen_text, stem) ==
    IF is_correct THEN <<"This", " ", "option", " ", "best", " ", "matches">>
    ELSE <<>>

explain_choice(is_correct, chosen_text, stem) ==
    IF is_correct THEN <<"This", " ", "option", " ", "best", " ", "matches">>
    ELSE choice_specific_wrong_rationale(chosen_text, stem)

\* build_choice_set returns correct_index 1: the second choice
CorrectPosition == 2

Filled(exc, it) == [exc |-> exc, item |-> it]

\* build_choices_and_explanations.main, the body of the loop for one item:
\* checks, labels, texts, flags, rationales, then the suffix that tells
\* equal rationales apart (no pool text reaches the 80 characters at which
\* the suffix would be cut)
fill_choices(it, shuffle) ==
    LET stem == OrEmpty(it.stem)
    IN  IF stem = <<>> \/ is_placeholder(stem) THEN Filled("ValueError", it)
        ELSE IF Len(it.choices) # 5 THEN Filled("ValueError", it)
        ELSE
        LET labelled == ensure_choice_labels(it.choices)
            choice_texts == build_choice_set(pick_discipline_hint(stem), shuffle)
            set == [k \in 1..5 |->
                     [labelled[k] EXCEPT
                        !.text = choice_texts[k],
                        !.is_correct = (k = CorrectPosition),
                        !.explanation = explain_choice(k = CorrectPosition,
                                                       choice_texts[k], stem)]]
            seen(k) == {Strip(set[j].explanation) : j \in 1..(k - 1)}
            deduped == [k \in 1..5 |->
                         LET exp == Strip(set[k].explanation)
                         IN  IF exp \in seen(k)
                             THEN [set[k] EXCEPT !.explanation =
                                     exp \o <<" ", "(Note:", " ">>
                                         \o Strip(set[k].text) \o <<")">>]
                             ELSE set[k]]
        IN  Filled("", [it EXCEPT !.choices = deduped])

(***************************************************************************)
(* SpecChoiceItem: the loop body of the choice synthesis on every item     *)
(***************************************************************************)
\* the keywords a stem can carry for pick_discipline_hint
DisciplineWords ==
    {<<>>, <<"murmur">>, <<"jaundice">>, <<"crackles">>, <<"hyponatremia">>,
     <<"proteinuria">>, <<"crackles", "murmur">>}

SignalKeys == {"fever", "bp", "anemia", "diabetes", "weakness", "hyperpigmented"}

\* the keywords a stem can carry for _stem_signal
SignalWords ==
    {<<>>, <<"anemia", "bp", "fever">>} \cup {<<a>> : a \in SignalKeys}
        \cup {<<a, b>> : a \in SignalKeys, b \in SignalKeys \ {"fever"}}

\* the stems handed to the stage: missing, empty, placeholder, and written
Stems ==
    {NoneVal, <<>>, PlaceholderStem}
        \cup {<<"A", " ">> \o d \o s : d \in DisciplineWords, s \in SignalWords}

\* the choices handed to the stage: the placeholders, one too few, one too
\* many, none, and five that all claim label A and correctness
ChoiceLists ==
    { PlaceholderChoices,
      SubSeq(PlaceholderChoices, 1, 4),
      Append(PlaceholderChoices, Choice("F", <<"x">>, TRUE, <<>>)),
      <<>>,
      [k \in 1..5 |-> Choice("A", <<>>, TRUE, <<" ">>)] }

InitChoiceItem ==
    /\ choice_item \in {QuestionItem(<<"P", "M", "C", "7">>, st, NoneVal, ch) :
                            st \in Stems, ch \in ChoiceLists}
    /\ shuffle_outcome \in Shuffles
    /\ filled = NoFilled
    /\ IdleNorm
    /\ InitFetch
    /\ IdleClassify /\ IdleBatch /\ IdleReshape /\ IdlePipe /\ IdleExtract
    /\ IdleMore

\* the loop body runs on the item
FillItem ==
    /\ filled = NoFilled
    /\ filled' = fill_choices(choice_item, shuffle_outcome)
    /\ UNCHANGED <<choice_item, shuffle_outcome>>
    /\ UNCHANGED <<normVars, fetchVars, classVars, batchVars, reshapeVars,
                    pipeVars, extractVars, moreVars>>

NextChoiceItem == FillItem

SpecChoiceItem == InitChoiceItem /\ [][NextChoiceItem]_vars

\* how many choices are flagged correct
CorrectCount(choices) == Cardinality({k \in 1..Len(choices) : choices[k].is_correct})

\* C16: every item the choice synthesis fills has exactly 5 choices, exactly
\* one of them correct, and a non-empty rationale on each, whatever the
\* discipline pool and the shuffle outcome.
C16_FilledItemComplete ==
    filled.exc = ""
    => /\ Len(filled.item.choices) = 5
       /\ CorrectCount(filled.item.choices) = 1
       /\ \A k \in 1..5 : Strip(filled.item.choices[k].explanation) # <<>>

C16_Witness ==
    /\ filled.exc = ""
    /\ pick_discipline_hint(choice_item.stem) = "general"
    /\ shuffle_outcome = <<4, 3, 2, 1>>
    /\ choice_item.choices[1].is_correct
    /\ Contains(filled.item.choices[5].explanation, "(Note:")

(***************************************************************************)
(* convert_ready_to_seed_minimal                                           *)
(***************************************************************************)
\* a value that is not a str: the int 7
IntVal == <<"<int>", "7">>

\* str(x)
PyStr(x) == IF x # <<>> /\ Head(x) = "<int>" THEN Tail(x) ELSE x

NormalizePromptKeepsNone(raw_prompt) ==
    IF raw_prompt = NoneVal THEN NoneVal ELSE Strip(PyStr(raw_prompt))

normalize_prompt(raw_prompt) ==
    IF raw_prompt = NoneVal THEN <<>> ELSE Strip(PyStr(raw_prompt))

OutQ(exc, q) == [exc |-> exc, q |-> q]

\* main: out_q as built from the item; strip() of None raises AttributeError
build_out_q(it) ==
    IF it.stem = NoneVal
        \/ \E k \in 1..Len(it.choices) :
              it.choices[k].text = NoneVal \/ it.choices[k].explanation = NoneVal
    THEN OutQ("AttributeError", <<>>)
    ELSE OutQ("", [stem |-> Strip(it.stem),
                   prompt |-> normalize_prompt(it.prompt),
                   choices |-> [k \in 1..Len(it.choices) |->
                       [label |-> it.choices[k].label,
                        text |-> Strip(it.choices[k].text),
                        correct |-> it.choices[k].is_correct,
                        explanation |-> Strip(it.choices[k].explanation)]]])

AssertValidIgnoresLabels(q) ==
    LET choices == q.choices
    IN  IF ~(4 <= Len(choices) /\ Len(choices) <= 5) THEN OutQ("ValueError", q)
        ELSE IF Cardinality({k \in 1..Len(choices) : choices[k].correct}) # 1
        THEN OutQ("ValueError", q)
        ELSE IF \E k \in 1..Len(choices) : Strip(choices[k].explanation) = <<>>
        THEN OutQ("ValueError", q)
        ELSE OutQ("", q)

\* assert_valid_question: the exception it raises, and q as it leaves it
assert_valid_question(q) ==
    LET choices == q.choices
    IN  IF ~(4 <= Len(choices) /\ Len(choices) <= 5) THEN OutQ("ValueError", q)
        ELSE IF Cardinality({k \in 1..Len(choices) : choices[k].correct}) # 1
        THEN OutQ("ValueError", q)
        ELSE IF Cardinality({choices[k].label : k \in 1..Len(choices)}) # Len(choices)
        THEN OutQ("ValueError", q)
        ELSE IF \E k \in 1..Len(choices) : Strip(choices[k].explanation) = <<>>
        THEN OutQ("ValueError", q)
        ELSE OutQ("", q)

ConvertItemUnchecked(it) == build_out_q(it)

\* main, the body of the loop for one item up to out_questions.append
convert_item(it) ==
    LET built == build_out_q(it)
    IN  IF built.exc # "" THEN built ELSE assert_valid_question(built.q)

(***************************************************************************)
(* SpecReshape: the loop body of the reshaper on every item                *)
(***************************************************************************)
\* longest list of choices handed to the reshaper
MaxChoices == 6

LabelByPosition == <<"A", "B", "C", "D", "E", "F", "G", "H">>

\* n choices labelled by position, those in correct flagged, the one at
\* relabel given label A, the one at odd given the explanation oddExp
ReadyChoices(n, correct, relabel, odd, oddExp) ==
    [k \in 1..n |->
        Choice(IF k = relabel THEN "A" ELSE LabelByPosition[k],
               <<" ", "text">>,
               k \in correct,
               IF k = odd THEN oddExp ELSE <<"why", " ">>)]

ReadyChoiceLists ==
    UNION {{ReadyChoices(n, correct, relabel, odd, oddExp) :
                correct \in {S \in SUBSET (1..n) : Cardinality(S) <= 2},
                relabel \in 0..n, odd \in 0..n,
                oddExp \in {<<>>, <<" ">>, NoneVal}}
           : n \in 3..MaxChoices}

Prompts == {NoneVal, <<>>, <<" ">>, <<" ", "Which", "?", " ">>, IntVal}

InitReshape ==
    /\ ready \in {QuestionItem(<<"P", "M", "C", "7">>, st, pr, ch) :
                     st \in {NoneVal, <<" ", "A", " ">>}, pr \in Prompts,
                     ch \in ReadyChoiceLists}
    /\ out_q = NoOutQ
    /\ IdleNorm
    /\ InitFetch
    /\ IdleClassify /\ IdleBatch /\ IdleItem /\ IdlePipe /\ IdleExtract
    /\ IdleMore

\* the loop body runs on the item
ConvertItem ==
    /\ out_q = NoOutQ
    /\ out_q' = convert_item(ready)
    /\ UNCHANGED ready
    /\ UNCHANGED <<normVars, fetchVars, classVars, batchVars, itemVars,
                    pipeVars, extractVars, moreVars>>

NextReshape == ConvertItem

SpecReshape == InitReshape /\ [][NextReshape]_vars

\* the four structural rules on a question handed to the validator
MeetsRules(q) ==
    /\ Len(q.choices) \in {4, 5}
    /\ \E k \in 1..Len(q.choices) :
          /\ q.choices[k].correct
          /\ \A j \in 1..Len(q.choices) : q.choices[j].correct => j = k
    /\ \A j, k \in 1..Len(q.choices) :
          j # k => q.choices[j].label # q.choices[k].label
    /\ \A k \in 1..Len(q.choices) : q.choices[k].explanation # <<>>

\* C17: the reshaper raises on a question that breaks one of the rules (4 or
\* 5 choices, exactly one correct, unique labels, a non-empty explanation on
\* every choice) and leaves it as it is; a question that meets them is
\* accepted exactly as it was handed to the validator.
C17_ValidatorRaisesOrAccepts ==
    (out_q # NoOutQ /\ build_out_q(ready).exc = "")
    => LET q == build_out_q(ready).q
       IN  /\ out_q.q = q
           /\ MeetsRules(q) => out_q.exc = ""
           /\ ~MeetsRules(q) => out_q.exc = "ValueError"

C17_Witness ==
    /\ out_q.exc = "ValueError"
    /\ Len(ready.choices) = 5
    /\ Cardinality({k \in 1..5 : ready.choices[k].is_correct}) = 1
    /\ \A k \in 1..5 : Strip(OrEmpty(ready.choices[k].explanation)) # <<>>
    /\ ready.choices[3].label = "A"

\* a str, not None and not another type
IsStr(x) == x # NoneVal /\ ~(x # <<>> /\ Head(x) = "<int>")

\* C18: the prompt of a question the reshaper emits is a string, never null;
\* a null or missing prompt becomes "".
C18_PromptIsString ==
    out_q.exc = ""
    => /\ IsStr(out_q.q.prompt)
       /\ ready.prompt = NoneVal => out_q.q.prompt = <<>>

C18_Witness ==
    /\ out_q.exc = ""
    /\ ready.prompt = NoneVal
    /\ out_q.q.prompt = <<>>

(***************************************************************************)
(* SpecPipeline: the stages run in any order over the batch files; each    *)
(* action is one whole run of a main, the files hold questions[]           *)
(***************************************************************************)
\* the identifier PMC7...7 with n digits
IdN(n) == PMC \o [k \in 1..n |-> "7"]

\* the batch ingest_pilot writes once it has found 10 identifiers
PilotBatch == [k \in 1..ExpectedLen |-> transform_to_question(IdN(k))]

\* the candidates Europe PMC offers to replace_bad_item that pass the fetch
\* and the 200 body words: a new identifier and one the pilot batch has
Candidates == {IdN(1), IdN(ExpectedLen + 1)}

\* build_step1_like_stem: the vital signs put "Temp", "BP" and "RR" in every
\* stem; the examination and laboratory sentences decide which discipline
\* keyword comes first
BuiltStems ==
    {<<"A", " ", w, " ", "fever", " ", "bp">> : w \in {"murmur", "crackles"}}

\* the shuffle outcomes a run of the choice synthesis is followed through
RunShuffles == {<<1, 2, 3, 4>>, <<4, 3, 2, 1>>}

Run(stage, exc) == [stage |-> stage, exc |-> exc]

Has(name) == name \in DOMAIN seed

\* json.dump of questions[] into the file
WriteBatch(fs, name, qs) ==
    [n \in DOMAIN fs \cup {name} |-> IF n = name THEN qs ELSE fs[n]]

pipeFrame == <<normVars, fetchVars, classVars, batchVars, itemVars, reshapeVars,
               extractVars, moreVars>>

\* ingest_pilot.validate_item, dryrun profile: TRUE when it raises
validate_item(it) ==
    \/ Len(it.choices) # 5
    \/ CorrectCount(it.choices) # 1
    \/ \E k \in 1..Len(it.choices) :
          \/ Strip(OrEmpty(it.choices[k].text)) = <<>>
          \/ Strip(OrEmpty(it.choices[k].explanation)) = <<>>

\* ingest_pilot.main: fewer than 10 identifiers found raises, an item that
\* fails validate_item raises, else the batch of placeholder items is
\* written to the working directory
IngestRun ==
    /\ \E found \in BOOLEAN :
        IF ~found
        THEN /\ lastRun' = Run("ingest_pilot", "RuntimeError")
             /\ UNCHANGED seed
        ELSE IF \E k \in 1..ExpectedLen : validate_item(PilotBatch[k])
        THEN /\ lastRun' = Run("ingest_pilot", "ValueError")
             /\ UNCHANGED seed
        ELSE /\ seed' = WriteBatch(seed, "pilot_batch_10.json", PilotBatch)
             /\ lastRun' = Run("ingest_pilot", "")
    /\ UNCHANGED pipeFrame

\* the operator puts the pilot batch where enrich_metadata reads it
PlaceBatch ==
    /\ Has("pilot_batch_10.json")
    /\ seed' = WriteBatch(seed, "seed/pilot_batch_10.json", seed["pilot_batch_10.json"])
    /\ lastRun' = Run("place", "")
    /\ UNCHANGED pipeFrame

\* enrich_metadata.main: external_refs of every item is filled in, question
\* and choices stay as they are
EnrichRun ==
    /\ IF ~Has("seed/pilot_batch_10.json")
       THEN lastRun' = Run("enrich_metadata", "FileNotFoundError") /\ UNCHANGED seed
       ELSE IF seed["seed/pilot_batch_10.json"] = <<>>
       THEN lastRun' = Run("enrich_metadata", "ValueError") /\ UNCHANGED seed
       ELSE /\ seed' = WriteBatch(seed, "seed/seed_pilot_10_enriched.json",
                         [k \in 1..Len(seed["seed/pilot_batch_10.json"]) |->
                            LET q == seed["seed/pilot_batch_10.json"][k]
                                id == get_pmcid_from_item(Item(q.pmcid, q.pmcid))
                            IN  [q EXCEPT !.pmcid = id]])
            /\ lastRun' = Run("enrich_metadata", "")
    /\ UNCHANGED pipeFrame

\* replace_bad_item.main: the first candidate that is not in the batch takes
\* the place of item 1, after the batch has been saved as .bak
ReplaceRun ==
    /\ IF ~Has("seed/seed_pilot_10_enriched.json")
       THEN lastRun' = Run("replace_bad_item", "FileNotFoundError") /\ UNCHANGED seed
       ELSE LET qs == seed["seed/seed_pilot_10_enriched.json"]
                existing == {normalize_pmcid_replace(qs[k].pmcid) : k \in 1..Len(qs)}
                            \ {<<>>}
            IN  IF Len(qs) # ExpectedLen
                THEN lastRun' = Run("replace_bad_item", "ValueError") /\ UNCHANGED seed
                ELSE \E offered \in {{}, Candidates} :
                        IF offered \ existing = {}
                        THEN /\ lastRun' = Run("replace_bad_item", "RuntimeError")
                             /\ UNCHANGED seed
                        ELSE \E cand \in offered \ existing :
                             /\ seed' = WriteBatch(
                                    WriteBatch(seed, "seed/seed_pilot_10_enriched.json.bak", qs),
                                    "seed/seed_pilot_10_enriched.json",
                                    [qs EXCEPT ![1] = build_item_from_candidate(cand)])
                             /\ lastRun' = Run("replace_bad_item", "")
    /\ UNCHANGED pipeFrame

\* build_step1_stems.main: a missing identifier, a failed fetch or a failed
\* parse raises; else every item gets its stem
StemsRun ==
    /\ IF ~Has("seed/seed_pilot_10_enriched.json")
       THEN lastRun' = Run("build_step1_stems", "FileNotFoundError") /\ UNCHANGED seed
       ELSE LET qs == seed["seed/seed_pilot_10_enriched.json"]
            IN  IF Len(qs) # ExpectedLen
                   \/ \E k \in 1..Len(qs) : normalize_pmcid_stems(qs[k].pmcid) = <<>>
                THEN lastRun' = Run("build_step1_stems", "ValueError") /\ UNCHANGED seed
                ELSE \E fetched \in BOOLEAN, stem \in BuiltStems :
                        IF ~fetched
                        THEN /\ lastRun' = Run("build_step1_stems", "HTTPError")
                             /\ UNCHANGED seed
                        ELSE /\ seed' = WriteBatch(seed, "seed/seed_pilot_10_step1stems.json",
                                    [k \in 1..Len(qs) |-> [qs[k] EXCEPT !.stem = stem]])
                             /\ lastRun' = Run("build_step1_stems", "")
    /\ UNCHANGED pipeFrame

\* build_choices_and_explanations.main: one item that raises ends the run
\* without output; else every item is filled and the batch written
ChoicesRun ==
    /\ IF ~Has("seed/seed_pilot_10_step1stems.json")
       THEN lastRun' = Run("build_choices_and_explanations", "FileNotFoundError")
            /\ UNCHANGED seed
       ELSE LET qs == seed["seed/seed_pilot_10_step1stems.json"]
            IN  IF Len(qs) # ExpectedLen
                THEN lastRun' = Run("build_choices_and_explanations", "ValueError")
                     /\ UNCHANGED seed
                ELSE \E outcome \in RunShuffles :
                        LET done == [k \in 1..Len(qs) |-> fill_choices(qs[k], outcome)]
                        IN  IF \E k \in 1..Len(qs) : done[k].exc # ""
                            THEN /\ lastRun' = Run("build_choices_and_explanations",
                                                   "ValueError")
                                 /\ UNCHANGED seed
                            ELSE /\ seed' = WriteBatch(seed, "seed/seed_pilot_10_ready.json",
                                              [k \in 1..Len(qs) |-> done[k].item])
                                 /\ lastRun' = Run("build_choices_and_explanations", "")
    /\ UNCHANGED pipeFrame

\* convert_ready_to_seed_minimal.main: one item that raises ends the run
\* without output; else every out_q is written
ConvertRun ==
    /\ IF ~Has("seed/seed_pilot_10_ready.json")
       THEN lastRun' = Run("convert_ready_to_seed_minimal", "FileNotFoundError")
            /\ UNCHANGED seed
       ELSE LET qs == seed["seed/seed_pilot_10_ready.json"]
                done == [k \in 1..Len(qs) |-> convert_item(qs[k])]
            IN  IF \E k \in 1..Len(qs) : done[k].exc # ""
                THEN /\ lastRun' = Run("convert_ready_to_seed_minimal",
                          done[CHOOSE k \in 1..Len(qs) :
                                 done[k].exc # "" /\ \A j \in 1..(k - 1) : done[j].exc = ""].exc)
                     /\ UNCHANGED seed
                ELSE /\ seed' = WriteBatch(seed, "seed/seed_pilot_10_seed_minimal.json",
                                  [k \in 1..Len(qs) |-> done[k].q])
                     /\ lastRun' = Run("convert_ready_to_seed_minimal", "")
    /\ UNCHANGED pipeFrame

InitPipeline ==
    /\ IdlePipe
    /\ IdleNorm
    /\ InitFetch
    /\ IdleClassify /\ IdleBatch /\ IdleItem /\ IdleReshape /\ IdleExtract
    /\ IdleMore

NextPipeline ==
    \/ IngestRun
    \/ PlaceBatch
    \/ EnrichRun
    \/ ReplaceRun
    \/ StemsRun
    \/ ChoicesRun
    \/ ConvertRun

SpecPipeline == InitPipeline /\ [][NextPipeline]_vars

\* the correctness flag of a choice, under either of its two field names
Flag(c) == IF "correct" \in DOMAIN c THEN c.correct ELSE c.is_correct

\* the batch files that stages write
Emitted ==
    {"pilot_batch_10.json", "seed/seed_pilot_10_enriched.json",
     "seed/seed_pilot_10_ready.json", "seed/seed_pilot_10_seed_minimal.json"}

\* C15: after any sequence of stage runs, every item in a batch file written
\* by ingest_pilot, replace_bad_item, build_choices_and_explanations or
\* convert_ready_to_seed_minimal has exactly one choice flagged correct and
\* pairwise distinct choice labels.
C15_OneCorrectDistinctLabels ==
    \A name \in DOMAIN seed \cap Emitted :
        \A k \in 1..Len(seed[name]) :
            LET choices == seed[name][k].choices
            IN  /\ Cardinality({c \in 1..Len(choices) : Flag(choices[c])}) = 1
                /\ \A a, b \in 1..Len(choices) :
                      a # b => choices[a].label # choices[b].label

C15_Witness ==
    /\ Has("seed/seed_pilot_10_seed_minimal.json")
    /\ Has("seed/seed_pilot_10_enriched.json.bak")
    /\ seed["seed/seed_pilot_10_ready.json"][1].pmcid = IdN(ExpectedLen + 1)
    /\ lastRun = Run("convert_ready_to_seed_minimal", "")

(***************************************************************************)
(* SpecExtract: section extraction from a parsed tree.  A tree is the      *)
(* sequence of its elements in document order, the root first              *)
(***************************************************************************)
\* elements under the root
MaxNodes == 3

\* an Element: its tag, the index of its parent (0 for the root), the text
\* before its first child and the tail after its end tag
Node(tag, parent, text, tail) ==
    [tag |-> tag, parent |-> parent, text |-> text, tail |-> tail]

\* the root element the efetch payload has
RootNode == Node("pmc-articleset", 0, <<"\n">>, <<>>)

Tags == {"body", "sec", "p", "abstract", "trans-abstract"}

\* the word that tells the text of element k from the others
WordOf(k) == <<"w1", "w2", "w3", "w4", "w5", "w6">>[k]

\* text with a leading blank and a run of two blanks inside, or blank text
TextOf(k, worded) ==
    IF worded THEN <<" ", WordOf(k), " ", "\n", "z">> ELSE <<"\n", " ">>

TailOf(worded) == IF worded THEN <<" ", "t">> ELSE <<"\n">>

RECURSIVE Ancestors(_, _)
Ancestors(t, k) ==
    IF t[k].parent = 0 THEN {} ELSE {t[k].parent} \cup Ancestors(t, t[k].parent)

\* document order: the parent of an element is the element before it or one
\* of that element's ancestors
IsDocumentOrder(t) ==
    \A k \in 2..Len(t) :
        /\ t[k].parent \in 1..(k - 1)
        /\ k > 2 => t[k].parent \in {k - 1} \cup Ancestors(t, k - 1)

\* the ways n elements nest under the root
Shapes(n) ==
    {par \in [2..(n + 1) -> 1..n] :
        IsDocumentOrder([k \in 1..(n + 1) |->
            IF k = 1 THEN RootNode ELSE Node("", par[k], <<>>, <<>>)])}

\* a tree ET.fromstring returns: n elements under the root, at most one of
\* them (blank) with only whitespace in its text and tail
Tree(n, par, tags, blank) ==
    [k \in 1..(n + 1) |->
        IF k = 1 THEN RootNode
        ELSE Node(tags[k], par[k], TextOf(k, k # blank), TailOf(k # blank))]

RECURSIVE InOrder(_)
InOrder(S) ==
    IF S = {} THEN <<>> ELSE <<MinOf(S)>> \o InOrder(S \ {MinOf(S)})

RECURSIVE Flat(_)
Flat(ss) == IF ss = <<>> THEN <<>> ELSE Head(ss) \o Flat(Tail(ss))

\* Element.findall(".//tag") on element n: its descendants in document order
findall(t, n, tag) ==
    InOrder({k \in 1..Len(t) : n \in Ancestors(t, k) /\ t[k].tag = tag})

\* "".join(n.itertext())
RECURSIVE itertext(_, _)
itertext(t, n) ==
    LET kids == InOrder({k \in 1..Len(t) : t[k].parent = n})
    IN  t[n].text
        \o Flat([j \in 1..Len(kids) |-> itertext(t, kids[j]) \o t[kids[j]].tail])

\* re.sub(r"\s+", " ", s).strip()
clean_text(s) ==
    LET keep == InOrder({k \in 1..Len(s) :
                    s[k] \notin Whitespace \/ k = 1 \/ s[k - 1] \notin Whitespace})
    IN  Strip([j \in 1..Len(keep) |->
                 IF s[keep[j]] \in Whitespace THEN " " ELSE s[keep[j]]])

RECURSIVE JoinParts(_)
JoinParts(parts) ==
    IF parts = <<>> THEN <<>>
    ELSE IF Len(parts) = 1 THEN parts[1]
    ELSE parts[1] \o <<"\n", "\n">> \o JoinParts(Tail(parts))

NonEmpty(s) == s # <<>>

\* collect_text / collect_text_from_nodes
collect_text(t, nodes) ==
    LET txt == [j \in 1..Len(nodes) |-> clean_text(itertext(t, nodes[j]))]
    IN  Strip(JoinParts(SelectSeq(txt, NonEmpty)))

\* ps.extend(b.findall(".//p")) for every b of the list
ExtendAll(t, nodes, tag) ==
    Flat([j \in 1..Len(nodes) |-> findall(t, nodes[j], tag)])

\* len(text.split())
WordCount(s) ==
    Cardinality({k \in 1..Len(s) :
        s[k] \notin Whitespace /\ (k = 1 \/ s[k - 1] \in Whitespace)})

\* audit_fulltext_coverage.extract_abstract
extract_abstract(t) ==
    LET abstracts == findall(t, 1, "abstract")
    IN  IF abstracts # <<>> THEN collect_text(t, abstracts) ELSE <<>>

ExtractBodyFallsThrough(t) ==
    LET body == findall(t, 1, "body")
        ps == ExtendAll(t, body, "p")
        secs == findall(t, 1, "sec")
        sps == ExtendAll(t, secs, "p")
    IN  IF body # <<>> /\ ps # <<>> THEN collect_text(t, ps)
        ELSE IF secs # <<>> /\ sps # <<>> THEN collect_text(t, sps)
        ELSE <<>>

\* audit_fulltext_coverage.extract_body
extract_body(t) ==
    LET body == findall(t, 1, "body")
        ps == ExtendAll(t, body, "p")
        secs == findall(t, 1, "sec")
        sps == ExtendAll(t, secs, "p")
    IN  IF body # <<>>
        THEN IF ps # <<>> THEN collect_text(t, ps) ELSE collect_text(t, body)
        ELSE IF secs # <<>> /\ sps # <<>> THEN collect_text(t, sps)
        ELSE <<>>

\* "abstract" in el.tag.lower()
TagHasAbstract(tag) == tag \in {"abstract", "trans-abstract"}

\* extract_pmc_text.find_abstract
find_abstract(t) ==
    LET abstracts == findall(t, 1, "abstract")
        abs_like == InOrder({k \in 1..Len(t) : TagHasAbstract(t[k].tag)})
    IN  IF abstracts # <<>> THEN collect_text(t, abstracts)
        ELSE IF abs_like # <<>> THEN collect_text(t, abs_like)
        ELSE <<>>

FindBodyNoSecFallback(t) ==
    LET body == findall(t, 1, "body")
        ps == ExtendAll(t, body, "p")
    IN  IF body # <<>>
        THEN IF ps # <<>> THEN collect_text(t, ps) ELSE collect_text(t, body)
        ELSE <<>>

\* extract_pmc_text.find_body_paragraphs
find_body_paragraphs(t) ==
    LET body == findall(t, 1, "body")
        ps == ExtendAll(t, body, "p")
        secs == findall(t, 1, "sec")
        sps == ExtendAll(t, secs, "p")
    IN  IF body # <<>>
        THEN IF ps # <<>> THEN collect_text(t, ps) ELSE collect_text(t, body)
        ELSE IF secs # <<>> /\ sps # <<>> THEN collect_text(t, sps)
        ELSE <<>>

\* replace_bad_item.extract_body_words
extract_body_words(t) ==
    LET body == findall(t, 1, "body")
        ps == ExtendAll(t, body, "p")
        secs == findall(t, 1, "sec")
        sps == ExtendAll(t, secs, "p")
        text == IF body # <<>>
                THEN IF ps # <<>> THEN collect_text(t, ps) ELSE collect_text(t, body)
                ELSE collect_text(t, sps)
    IN  IF body # <<>> \/ secs # <<>>
        THEN IF text # <<>> THEN WordCount(text) ELSE 0
        ELSE 0

Extracted(by, abstract, body, words) ==
    [by |-> by, abstract |-> abstract, body |-> body, words |-> words]

InitExtract ==
    /\ \E n \in 0..MaxNodes :
          \E par \in Shapes(n), tags \in [2..(n + 1) -> Tags],
             blank \in {0} \cup 2..(n + 1) :
              tree = Tree(n, par, tags, blank)
    /\ extracted = NoExtracted
    /\ IdleNorm
    /\ InitFetch
    /\ IdleClassify /\ IdleBatch /\ IdleItem /\ IdleReshape /\ IdlePipe
    /\ IdleMore

extractFrame == <<tree, normVars, fetchVars, classVars, batchVars, itemVars,
                  reshapeVars, pipeVars, moreVars>>

\* audit_fulltext_coverage.main on the parsed tree of one item
AuditExtract ==
    /\ extracted = NoExtracted
    /\ extracted' = Extracted("audit_fulltext_coverage", extract_abstract(tree),
                              extract_body(tree), NoCount)
    /\ UNCHANGED extractFrame

\* extract_pmc_text.extract_pmc_text on the parsed tree
PmcExtract ==
    /\ extracted = NoExtracted
    /\ extracted' = Extracted("extract_pmc_text", find_abstract(tree),
                              find_body_paragraphs(tree), NoCount)
    /\ UNCHANGED extractFrame

\* replace_bad_item.main on the parsed tree of one candidate
ReplaceMeasure ==
    /\ extracted = NoExtracted
    /\ extracted' = Extracted("replace_bad_item", <<>>, <<>>,
                              extract_body_words(tree))
    /\ UNCHANGED extractFrame

NextExtract ==
    \/ AuditExtract
    \/ PmcExtract
    \/ ReplaceMeasure

SpecExtract == InitExtract /\ [][NextExtract]_vars

\* the elements with the tag, the root aside
Tagged(tag) == {k \in 2..Len(tree) : tree[k].tag = tag}

\* the elements with the tag that lie under an element with the other tag
Under(tag, container) ==
    {k \in Tagged(tag) : Ancestors(tree, k) \cap Tagged(container) # {}}

\* the flattened, whitespace-normalized text of element k
FlatText(k) == clean_text(itertext(tree, k))

\* C19: when the tree has a body container and no p element under any body
\* container, the body extraction of audit_fulltext_coverage and of
\* extract_pmc_text returns the flattened, whitespace-normalized text of the
\* container (of the one container, when there is one), which is not empty
\* when a container has non-whitespace text, and is empty when every
\* container is blank, whatever paragraphs the sec elements hold;
\* replace_bad_item counts the words of that same text.
C19_BodyWithoutParagraphs ==
    (extracted # NoExtracted /\ Tagged("body") # {} /\ Under("p", "body") = {})
    => LET flat == {FlatText(b) : b \in Tagged("body")}
       IN  IF extracted.by = "replace_bad_item"
           THEN /\ Cardinality(Tagged("body")) = 1 =>
                      \A b \in Tagged("body") :
                          extracted.words = WordCount(FlatText(b))
                /\ flat # {<<>>} => extracted.words > 0
                /\ flat = {<<>>} => extracted.words = 0
           ELSE /\ Cardinality(Tagged("body")) = 1 =>
                      \A b \in Tagged("body") : extracted.body = FlatText(b)
                /\ flat # {<<>>} => extracted.body # <<>>
                /\ flat = {<<>>} => extracted.body = <<>>

C19_Witness ==
    /\ extracted # NoExtracted
    /\ extracted.by = "audit_fulltext_coverage"
    /\ Cardinality(Tagged("body")) = 1
    /\ Under("p", "body") = {}
    /\ \E p \in Under("p", "sec") : FlatText(p) # <<>>
    /\ extracted.body = <<"w2", " ", "z">>

\* the p elements under exactly one sec element and under no other p
PlainSecParagraphs ==
    {k \in Under("p", "sec") :
        /\ Cardinality(Ancestors(tree, k) \cap Tagged("sec")) = 1
        /\ Ancestors(tree, k) \cap Tagged("p") = {}}

\* the paragraphs' texts that are not empty, joined by a blank line
ParagraphText(ps) ==
    JoinParts(SelectSeq([j \in 1..Len(InOrder(ps)) |-> FlatText(InOrder(ps)[j])],
                        NonEmpty))

\* the body extraction on a tree without body container: the text of the
\* paragraphs under sec elements, empty when there is none
SecFallback ==
    Tagged("body") = {}
    => /\ Under("p", "sec") = PlainSecParagraphs
              => extracted.body = ParagraphText(Under("p", "sec"))
       /\ extracted.body # <<>>
              <=> \E p \in Under("p", "sec") : FlatText(p) # <<>>
       /\ Under("p", "sec") = {} => extracted.body = <<>>

\* C20 as stated: without body container the body extraction of
\* audit_fulltext_coverage and of extract_pmc_text returns the paragraphs
\* under sec elements, and the empty string when there is none; the abstract
\* extraction returns the empty string when no abstract element exists.
C20_FallbackAndEmpty ==
    (extracted # NoExtracted /\ extracted.by # "replace_bad_item")
    => /\ SecFallback
       /\ Tagged("abstract") = {} => extracted.abstract = <<>>

\* C20 amended: as above, but the abstract extraction of extract_pmc_text
\* returns the empty string when no element has a tag that contains
\* "abstract"; with a trans-abstract element and no abstract element it
\* returns the text of the trans-abstract element.
C20_FallbackAndEmptyAmended ==
    (extracted # NoExtracted /\ extracted.by # "replace_bad_item")
    => /\ SecFallback
       /\ IF extracted.by = "extract_pmc_text"
          THEN /\ {k \in 1..Len(tree) : TagHasAbstract(tree[k].tag)} = {}
                      => extracted.abstract = <<>>
               /\ (Tagged("abstract") = {} /\ Tagged("trans-abstract") # {})
                      => extracted.abstract
                           = ParagraphText(Tagged("trans-abstract"))
          ELSE Tagged("abstract") = {} => extracted.abstract = <<>>

C20_Witness ==
    /\ extracted # NoExtracted
    /\ extracted.by = "extract_pmc_text"
    /\ Tagged("body") = {}
    /\ Tagged("abstract") = {}
    /\ Tagged("trans-abstract") # {}
    /\ extracted.abstract # <<>>
    /\ extracted.body = <<"w3", " ", "z">>

(***************************************************************************)
(* SpecReplace: replace_bad_item.main, candidate after candidate           *)
(***************************************************************************)
\* longest result list of europe_pmc_find_candidates
MaxCandidates == 2

\* body_words >= 200
MinBodyWords == 200

EnrichedPath == "seed/seed_pilot_10_enriched.json"

BackupPath == "seed/seed_pilot_10_enriched.json.bak"

\* c.get("pmcid") of a candidate: missing, an identifier of the batch, a new
\* one without its prefix, one that is not PMC<digits>, another new one
CandidateIds ==
    { NoneVal,
      IdN(1),
      [k \in 1..(ExpectedLen + 1) |-> "7"],
      <<"P", "M", "C", "x">>,
      IdN(ExpectedLen + 2) }

CandidateLists == UNION {[1..n -> CandidateIds] : n \in 0..MaxCandidates}

\* what efetch answers for a candidate
CandidateResponses ==
    { RequestException,
      [exc |-> FALSE, status |-> 404, content |-> <<"<article">>],
      [exc |-> FALSE, status |-> 200, content |-> <<"<html">>],
      [exc |-> FALSE, status |-> 200, content |-> <<"text">>],
      [exc |-> FALSE, status |-> 200, content |-> <<"<article">>] }

\* seed/ before the stage runs: no batch, a batch of 9, the batch of 10
EnrichedBatches ==
    { <<>>,
      WriteBatch(<<>>, EnrichedPath, SubSeq(PilotBatch, 1, ExpectedLen - 1)),
      WriteBatch(<<>>, EnrichedPath, PilotBatch),
      WriteBatch(<<>>, EnrichedPath,
                 [PilotBatch EXCEPT ![2] = transform_to_question(NoneVal)]) }

\* what main prints for a candidate it tested
Tested(index, id, exc, body_words) ==
    [index |-> index, pmcid |-> id, exc |-> exc, body_words |-> body_words]

Chosen(id, body_words) == [id |-> id, body_words |-> body_words]

InitReplace ==
    /\ script = "replace_bad_item"
    /\ pc = "main"
    /\ seed \in EnrichedBatches
    /\ lastRun = NoRun
    /\ files = <<>>
    /\ candidates = <<>>
    /\ chosen = NoChosen
    /\ hits = <<>>
    /\ picked = <<>>
    /\ selected = <<>>
    /\ discipline_key = "None"
    /\ choice_set = NoChoiceSet
    /\ IdleImport
    /\ questions = <<>>
    /\ i = 0
    /\ results = <<>>
    /\ sent = <<>>
    /\ faults = <<>>
    /\ output = NoOutput
    /\ result = NoResult
    /\ stored = {}
    /\ calls = 0
    /\ pmcid = <<>>
    /\ attempt = 0
    /\ last_msg = EmptyMsg
    /\ requested = <<>>
    /\ lastResp = NoResp
    /\ verdict = "none"
    /\ printed = NoPrint
    /\ IdleNorm
    /\ IdleClassify /\ IdleItem /\ IdleReshape /\ IdleExtract

replaceFrame == <<normVars, classVars, itemVars, reshapeVars, extractVars, stored,
                  calls, pmcid, attempt, last_msg, requested, lastResp, verdict,
                  printed, script, output, lastRun, hits, picked, selected,
                  discipline_key, choice_set, importVars>>

ExistingForgotten(qs) == {}

\* the identifiers of the batch, normalized, the empty one left out
Existing(qs) ==
    {normalize_pmcid_replace(qs[k].pmcid) : k \in 1..Len(qs)} \ {<<>>}

ReplaceRaises(exc) ==
    /\ pc' = "done"
    /\ result' = Result("raise", exc, NoPath, EmptyMsg)

\* main up to its loop: the input checks and the search for candidates
ReplaceStart ==
    /\ script = "replace_bad_item"
    /\ pc = "main"
    /\ IF EnrichedPath \notin DOMAIN seed
       THEN ReplaceRaises("FileNotFoundError") /\ UNCHANGED <<questions, candidates>>
       ELSE IF Len(seed[EnrichedPath]) # ExpectedLen
       THEN ReplaceRaises("ValueError") /\ UNCHANGED <<questions, candidates>>
       ELSE \E searched \in BOOLEAN :
              IF ~searched
              THEN ReplaceRaises("HTTPError") /\ UNCHANGED <<questions, candidates>>
              ELSE /\ questions' = seed[EnrichedPath]
                   /\ candidates' \in CandidateLists
                   /\ pc' = "loop"
                   /\ UNCHANGED result
    /\ UNCHANGED <<i, results, sent, faults, files, seed, chosen>>
    /\ UNCHANGED replaceFrame

\* one iteration of the loop over candidates: a candidate without a valid
\* identifier or with one of the batch is passed over; else it is fetched,
\* parsed and measured, and whatever that raises is printed and skipped
ReplaceCandidate ==
    /\ script = "replace_bad_item"
    /\ pc = "loop"
    /\ chosen = NoChosen
    /\ i < Len(candidates)
    /\ \E resp \in CandidateResponses, words \in {MinBodyWords - 1, MinBodyWords} :
        LET index == i + 1
            id == normalize_pmcid_replace(candidates[index])
            passed == id = <<>> \/ ~is_valid_pmcid(id) \/ id \in Existing(questions)
            o == fetch_ncbi_xml_replace(id, resp, files)
            parsed == o.exc = "" /\ load_xml(o.files[o.path])
            exc == IF o.exc # "" THEN o.exc
                   ELSE IF ~parsed THEN "ParseError" ELSE ""
        IN  /\ i' = index
            /\ IF passed
               THEN UNCHANGED <<results, sent, faults, files, chosen>>
               ELSE /\ files' = o.files
                    /\ sent' = IF o.requested THEN Append(sent, Sent(index, o.id))
                               ELSE sent
                    /\ faults' = IF exc # "" THEN Append(faults, Fault(index, exc))
                                 ELSE faults
                    /\ results' = Append(results,
                          Tested(index, id, exc, IF exc = "" THEN words ELSE NoCount))
                    /\ chosen' = IF exc = "" /\ words >= MinBodyWords
                                 THEN Chosen(id, words) ELSE NoChosen
    /\ UNCHANGED <<pc, result, questions, candidates, seed>>
    /\ UNCHANGED replaceFrame

\* the loop ended without a candidate chosen
ReplaceNotFound ==
    /\ script = "replace_bad_item"
    /\ pc = "loop"
    /\ chosen = NoChosen
    /\ i = Len(candidates)
    /\ ReplaceRaises("RuntimeError")
    /\ UNCHANGED <<i, results, sent, faults, files, seed, chosen, questions, candidates>>
    /\ UNCHANGED replaceFrame

\* the backup of the payload as read
ReplaceBackup ==
    /\ script = "replace_bad_item"
    /\ pc = "loop"
    /\ chosen # NoChosen
    /\ seed' = WriteBatch(seed, BackupPath, questions)
    /\ pc' = "backup"
    /\ UNCHANGED <<i, results, sent, faults, files, chosen, questions, candidates, result>>
    /\ UNCHANGED replaceFrame

\* item 1 is replaced and the batch file written over
ReplaceWrite ==
    /\ script = "replace_bad_item"
    /\ pc = "backup"
    /\ questions' = [questions EXCEPT ![1] = build_item_from_candidate(chosen.id)]
    /\ seed' = WriteBatch(seed, EnrichedPath, questions')
    /\ pc' = "done"
    /\ result' = Result("return", "", NoPath, EmptyMsg)
    /\ UNCHANGED <<i, results, sent, faults, files, chosen, candidates>>
    /\ UNCHANGED replaceFrame

NextReplace ==
    \/ ReplaceStart
    \/ ReplaceCandidate
    \/ ReplaceNotFound
    \/ ReplaceBackup
    \/ ReplaceWrite

SpecReplace == InitReplace /\ [][NextReplace]_vars

(***************************************************************************)
(* SpecParse: every stage that parses a retrieved document                 *)
(***************************************************************************)
\* tmp/ before extract_pmc_text runs for PMC7: no document, or any payload
SavedDocuments ==
    {<<>>} \cup {WriteFile(<<>>, Path(IdN(1), ".xml"), content) : content \in Payloads}

InitExtractText ==
    /\ script = "extract_pmc_text"
    /\ pc = "main"
    /\ files \in SavedDocuments
    /\ seed = <<>>
    /\ lastRun = NoRun
    /\ candidates = <<>>
    /\ chosen = NoChosen
    /\ hits = <<>>
    /\ picked = <<>>
    /\ selected = <<>>
    /\ discipline_key = "None"
    /\ choice_set = NoChoiceSet
    /\ IdleImport
    /\ questions = <<>>
    /\ i = 0
    /\ results = <<>>
    /\ sent = <<>>
    /\ faults = <<>>
    /\ output = NoOutput
    /\ result = NoResult
    /\ stored = {}
    /\ calls = 0
    /\ pmcid = <<>>
    /\ attempt = 0
    /\ last_msg = EmptyMsg
    /\ requested = <<>>
    /\ lastResp = NoResp
    /\ verdict = "none"
    /\ printed = NoPrint
    /\ IdleNorm
    /\ IdleClassify /\ IdleItem /\ IdleReshape /\ IdleExtract

\* extract_pmc_text.extract_pmc_text for PMC7: a missing document and a
\* document that does not parse raise, else the report is written
ExtractPmcText ==
    /\ script = "extract_pmc_text"
    /\ pc = "main"
    /\ pc' = "done"
    /\ i' = 1
    /\ LET xml_path == Path(IdN(1), ".xml")
       IN  IF xml_path \notin DOMAIN files
           THEN /\ result' = Result("raise", "FileNotFoundError", NoPath, EmptyMsg)
                /\ UNCHANGED <<results, faults, output>>
           ELSE IF ~load_xml(files[xml_path])
           THEN /\ result' = Result("raise", "ParseError", NoPath, EmptyMsg)
                /\ faults' = Append(faults, Fault(1, "ParseError"))
                /\ UNCHANGED <<results, output>>
           ELSE \E words \in WordPairs :
                /\ results' = <<Row(1, IdN(1), words[1], words[2],
                                    summarize_extraction(words[1], words[2]), "None")>>
                /\ output' = [written |-> TRUE, questions |-> results']
                /\ result' = Result("return", "", Path(IdN(1), ".txt"), EmptyMsg)
                /\ UNCHANGED faults
    /\ UNCHANGED <<sent, files, seed, chosen, questions, candidates>>
    /\ UNCHANGED replaceFrame

InitParse ==
    \/ InitBatch /\ script # "enrich_metadata"
    \/ InitReplace
    \/ InitExtractText

NextParse ==
    \/ BatchStart
    \/ AuditItem
    \/ StemsItem
    \/ BatchFinish
    \/ NextReplace
    \/ ExtractPmcText

SpecParse == InitParse /\ [][NextParse]_vars

\* the items (candidates) whose document did not parse
Unparsed == {faults[f].index : f \in {g \in 1..Len(faults) : faults[g].exc = "ParseError"}}

\* C21: a document that does not parse is never passed over in silence: in
\* the audit its item gets an ERROR row with the parse error and no word
\* counts; build_step1_stems and extract_pmc_text raise, give the item no
\* stem or quality and write no output; replace_bad_item prints the skip of
\* that candidate, and the candidate it chooses is one it measured.
C21_ParseFailureNotSwallowed ==
    /\ \A k \in Unparsed :
        CASE script = "audit_fulltext_coverage" ->
                /\ Len(results) >= k
                /\ results[k].status = "ERROR"
                /\ results[k].error = "ParseError"
                /\ results[k].abstract_words = NoCount
                /\ results[k].body_words = NoCount
          [] script \in {"build_step1_stems", "extract_pmc_text"} ->
                /\ result = Result("raise", "ParseError", NoPath, EmptyMsg)
                /\ pc = "done"
                /\ ~output.written
                /\ \A r \in 1..Len(results) : results[r].index # k
          [] script = "replace_bad_item" ->
                \E r \in 1..Len(results) :
                    /\ results[r].index = k
                    /\ results[r].exc = "ParseError"
                    /\ results[r].body_words = NoCount
                    /\ chosen # NoChosen => r < Len(results)
          [] OTHER -> FALSE
    /\ (script = "replace_bad_item" /\ chosen # NoChosen)
        => /\ results # <<>>
           /\ results[Len(results)].exc = ""
           /\ results[Len(results)].pmcid = chosen.id
           /\ results[Len(results)].index \notin Unparsed

C21_Witness ==
    /\ script = "replace_bad_item"
    /\ pc = "done"
    /\ 1 \in Unparsed
    /\ chosen # NoChosen
    /\ results[2].pmcid = chosen.id
    /\ results[1].pmcid = chosen.id

(***************************************************************************)
(* SpecStages: fetch_pmc_xml invoked again and again, or one run of a      *)
(* stage that loops over items or candidates                               *)
(***************************************************************************)
InitStages ==
    \/ Init
    \/ InitParse

NextStages ==
    \/ NextPmcXml
    \/ NextParse

SpecStages == InitStages /\ [][NextStages]_vars

\* the indices of the requests issued, in the order they were issued
SentIndices(s) == [k \in 1..Len(s) |-> s[k].index]

\* C22: every loop is bounded and every iteration moves on: a fetch_pmc_xml
\* call has issued one request per attempt gone through and never more than
\* 3; replace_bad_item.main has issued at most one fetch per candidate gone
\* through, in list order, and ends by choosing or raising once the list is
\* used up; the batch stages go through each item once; a step that stays in
\* a loop raises its index by one.
C22_BoundedAttempts ==
    [][/\ script' = "fetch_pmc_xml"
            => /\ Len(requested') <= 3
               /\ pc' = "loop" => /\ attempt' <= 4
                                  /\ Len(requested') = attempt' - 1
               /\ (pc = "loop" /\ pc' = "loop") => attempt' = attempt + 1
               /\ (pc = "loop" /\ attempt > 3)
                    => pc' = "start" /\ result'.exc = "RuntimeError"
       /\ script' = "replace_bad_item"
            => /\ i' <= Len(candidates')
               /\ Len(sent') <= i'
               /\ \A j, k \in 1..Len(sent') :
                     j < k => sent'[j].index < sent'[k].index
               /\ (pc = "loop" /\ pc' = "loop") => i' = i + 1
               /\ (pc = "loop" /\ chosen = NoChosen /\ i = Len(candidates))
                    => pc' = "done" /\ result'.exc = "RuntimeError"
       /\ script' \in BatchStages
            => /\ i' <= Len(questions')
               /\ Len(sent') <= i'
               /\ \A j, k \in 1..Len(sent') :
                     j < k => sent'[j].index < sent'[k].index
               /\ (pc = "loop" /\ pc' = "loop") => i' = i + 1
      ]_vars

C22_Witness ==
    /\ script = "replace_bad_item"
    /\ pc = "done"
    /\ result.exc = "RuntimeError"
    /\ Len(candidates) = 2
    /\ SentIndices(sent) = <<1, 2>>
    /\ Len(faults) = 2

(***************************************************************************)
(* SpecIngest: ingest_pilot.main, topic search after topic search          *)
(***************************************************************************)
\* results of one search that are followed through
MaxHits == 2

\* len(cfg.pilot_topics)
TopicCount == 10

\* selected_pmcids[:10]
PilotSize == 10

\* one result of europe_pmc_search: the three keys pick_pmcids looks at
Hit(a, b, c) == [pmcid |-> a, pmcId |-> b, pmc_id |-> c]

\* the n-th identifier Europe PMC knows: canonical, lower case, bare digits
HitId(n) == PMC \o <<ToString(n)>>

HitLower(n) == <<"p", "m", "c", ToString(n)>>

HitBare(n) == <<ToString(n)>>

\* the result lists a search for topic t may give: nothing; MaxHits articles
\* no other topic finds; a list that names article 1 twice, has a result
\* without identifier, one with an empty identifier, and one new article
HitLists(t) ==
    { <<>>,
      [k \in 1..MaxHits |->
          IF k % 2 = 1 THEN Hit(HitLower(t * MaxHits + k), NoneVal, NoneVal)
          ELSE Hit(NoneVal, NoneVal, HitBare(t * MaxHits + k))],
      << Hit(NoneVal, HitLower(1), NoneVal),
         Hit(NoneVal, NoneVal, NoneVal),
         Hit(HitId(1), NoneVal, NoneVal),
         Hit(<<>>, HitBare(t * MaxHits + 1), NoneVal),
         Hit(<<>>, NoneVal, <<>>) >> }

\* a value Python takes as true
Truthy(v) == v # NoneVal /\ v # <<>>

\* item.get("pmcid") or item.get("pmcId") or item.get("pmc_id")
FirstTruthy(item) ==
    IF Truthy(item.pmcid) THEN item.pmcid
    ELSE IF Truthy(item.pmcId) THEN item.pmcId
    ELSE item.pmc_id

\* str(pmcid).upper(), with PMC in front when it does not start with it
WithPrefix(v) == IF StartsWith(Upper(v), PMC) THEN Upper(v) ELSE PMC \o Upper(v)

\* the loop "if x not in seen: seen.add(x); out.append(x)"
RECURSIVE AppendUnseen(_, _)
AppendUnseen(out, xs) ==
    IF xs = <<>> THEN out
    ELSE IF \E k \in 1..Len(out) : out[k] = Head(xs)
    THEN AppendUnseen(out, Tail(xs))
    ELSE AppendUnseen(Append(out, Head(xs)), Tail(xs))

PickPmcidsKeepsRepeats(found_list) ==
    LET found == SelectSeq([k \in 1..Len(found_list) |-> FirstTruthy(found_list[k])], Truthy)
    IN  [k \in 1..Len(found) |-> WithPrefix(found[k])]

\* ingest_pilot.pick_pmcids
pick_pmcids(found_list) ==
    LET found == SelectSeq([k \in 1..Len(found_list) |-> FirstTruthy(found_list[k])], Truthy)
    IN  AppendUnseen(<<>>, [k \in 1..Len(found) |-> WithPrefix(found[k])])

InitIngest ==
    /\ script = "ingest_pilot"
    /\ pc = "main"
    /\ hits = <<>>
    /\ picked = <<>>
    /\ selected = <<>>
    /\ discipline_key = "None"
    /\ choice_set = NoChoiceSet
    /\ IdleImport
    /\ candidates = <<>>
    /\ chosen = NoChosen
    /\ seed = <<>>
    /\ lastRun = NoRun
    /\ files = <<>>
    /\ questions = <<>>
    /\ i = 0
    /\ results = <<>>
    /\ sent = <<>>
    /\ faults = <<>>
    /\ output = NoOutput
    /\ result = NoResult
    /\ stored = {}
    /\ calls = 0
    /\ pmcid = <<>>
    /\ attempt = 0
    /\ last_msg = EmptyMsg
    /\ requested = <<>>
    /\ lastResp = NoResp
    /\ verdict = "none"
    /\ printed = NoPrint
    /\ IdleNorm
    /\ IdleClassify /\ IdleItem /\ IdleReshape /\ IdleExtract

ingestFrame == <<normVars, classVars, itemVars, reshapeVars, extractVars, stored,
                 calls, pmcid, attempt, last_msg, requested, lastResp, verdict,
                 printed, script, output, lastRun, candidates, chosen, questions,
                 discipline_key, choice_set, importVars,
                 results, sent, faults, files>>

\* one iteration of the loop over topics: the search raises, or its
\* identifiers that are new are appended to selected_pmcids
IngestTopic ==
    /\ script = "ingest_pilot"
    /\ pc = "main"
    /\ i < TopicCount
    /\ \E searched \in BOOLEAN :
        IF ~searched
        THEN /\ pc' = "done"
             /\ result' = Result("raise", "HTTPError", NoPath, EmptyMsg)
             /\ UNCHANGED <<i, hits, picked, selected>>
        ELSE \E found \in HitLists(i + 1) :
             /\ i' = i + 1
             /\ hits' = Append(hits, found)
             /\ picked' = Append(picked, pick_pmcids(found))
             /\ selected' = AppendUnseen(selected, pick_pmcids(found))
             /\ UNCHANGED <<pc, result>>
    /\ UNCHANGED seed
    /\ UNCHANGED ingestFrame

\* after the loop: the first 10 identifiers are kept; fewer than 10 raise,
\* else the batch is built, validated and written
IngestFinish ==
    /\ script = "ingest_pilot"
    /\ pc = "main"
    /\ i = TopicCount
    /\ pc' = "done"
    /\ selected' = SubSeq(selected, 1, IF Len(selected) < PilotSize
                                       THEN Len(selected) ELSE PilotSize)
    /\ LET batch == [k \in 1..Len(selected') |-> transform_to_question(selected'[k])]
       IN  IF Len(selected') < PilotSize
           THEN /\ result' = Result("raise", "RuntimeError", NoPath, EmptyMsg)
                /\ UNCHANGED seed
           ELSE IF \E k \in 1..Len(batch) : validate_item(batch[k])
           THEN /\ result' = Result("raise", "ValueError", NoPath, EmptyMsg)
                /\ UNCHANGED seed
           ELSE /\ result' = Result("return", "", NoPath, EmptyMsg)
                /\ seed' = WriteBatch(seed, "pilot_batch_10.json", batch)
    /\ UNCHANGED <<i, hits, picked>>
    /\ UNCHANGED ingestFrame

NextIngest ==
    \/ IngestTopic
    \/ IngestFinish

SpecIngest == InitIngest /\ [][NextIngest]_vars

\* no element occurs twice
NoRepeat(s) == \A j, k \in 1..Len(s) : j # k => s[j] # s[k]

\* the elements of s, each at the place of its first occurrence
FirstOccurrences(s) ==
    LET first == InOrder({k \in 1..Len(s) : \A j \in 1..(k - 1) : s[j] # s[k]})
    IN  [k \in 1..Len(first) |-> s[first[k]]]

\* the identifiers of a result list, upper case and with the prefix
Identifiers(found) ==
    LET raw == [k \in 1..Len(found) |->
                   IF Truthy(found[k].pmcid) THEN found[k].pmcid
                   ELSE IF Truthy(found[k].pmcId) THEN found[k].pmcId
                   ELSE found[k].pmc_id]
        given == SelectSeq(raw, Truthy)
    IN  [k \in 1..Len(given) |->
            IF StartsWith(Upper(given[k]), PMC) THEN Upper(given[k])
            ELSE PMC \o Upper(given[k])]

\* C23: pick_pmcids returns the identifiers of a result list, upper case and
\* with the PMC prefix, each once at the place of its first occurrence;
\* selected_pmcids holds every identifier found so far once, in the order of
\* first discovery, and after the truncation the first 10 of them.
C23_SelectedUniqueOrdered ==
    script = "ingest_pilot"
    => /\ \A t \in 1..Len(hits) :
            /\ picked[t] = FirstOccurrences(Identifiers(hits[t]))
            /\ NoRepeat(picked[t])
       /\ NoRepeat(selected)
       /\ LET all == FirstOccurrences(Flat(picked))
          IN  IF pc = "done" /\ result.exc # "HTTPError"
              THEN /\ Len(selected) <= PilotSize
                   /\ selected = SubSeq(all, 1, Len(selected))
                   /\ Len(all) >= PilotSize => Len(selected) = PilotSize
              ELSE selected = all

C23_Witness ==
    /\ script = "ingest_pilot"
    /\ pc = "done"
    /\ result.kind = "return"
    /\ Len(selected) = PilotSize
    /\ Len(FirstOccurrences(Flat(picked))) > PilotSize
    /\ \E t \in 2..Len(hits) : Len(hits[t]) > Len(picked[t]) /\ picked[t] # <<>>
    /\ selected[1] = HitId(1)

(***************************************************************************)
(* SpecChoiceSet: build_choice_set on its own, for every discipline key    *)
(***************************************************************************)
\* discipline keys: the six pools, and two keys no pool is written for
DisciplineKeys == Disciplines \cup {"neuro", ""}

ChoiceSet(texts, correct_index) == [texts |-> texts, correct_index |-> correct_index]

InitChoiceSet ==
    /\ discipline_key \in DisciplineKeys
    /\ shuffle_outcome \in Shuffles
    /\ choice_set = NoChoiceSet
    /\ IdleImport
    /\ choice_item = <<>>
    /\ filled = NoFilled
    /\ candidates = <<>>
    /\ chosen = NoChosen
    /\ hits = <<>>
    /\ picked = <<>>
    /\ selected = <<>>
    /\ IdleNorm
    /\ InitFetch
    /\ IdleClassify /\ IdleBatch /\ IdleReshape /\ IdlePipe /\ IdleExtract

\* the call build_choice_set(discipline): (final, 1)
BuildChoiceSet ==
    /\ discipline_key # "None"
    /\ choice_set = NoChoiceSet
    /\ choice_set' = ChoiceSet(build_choice_set(discipline_key, shuffle_outcome),
                               CorrectPosition - 1)
    /\ UNCHANGED <<discipline_key, shuffle_outcome, choice_item, filled,
                    candidates, chosen, hits, picked, selected, importVars>>
    /\ UNCHANGED <<normVars, fetchVars, classVars, batchVars, reshapeVars,
                    pipeVars, extractVars>>

NextChoiceSet == BuildChoiceSet

SpecChoiceSet == InitChoiceSet /\ [][NextChoiceSet]_vars

\* the pool written for a key, the general one when none is
PoolFor(key) == IF key \in Disciplines THEN Pool(key) ELSE Pool("general")

\* C24: for every discipline key and every shuffle outcome build_choice_set
\* returns 5 texts, all different, that are the 5 texts of the key's pool
\* (the general pool for an unknown key), the pool's second text second
\* (label B), and the correct index 1.
C24_ChoiceSetPermutation ==
    choice_set # NoChoiceSet
    => LET texts == choice_set.texts
           pool == PoolFor(discipline_key)
       IN  /\ Len(texts) = 5
           /\ \A j, k \in 1..5 : j # k => texts[j] # texts[k]
           /\ {texts[k] : k \in 1..5} = {pool[k] : k \in 1..5}
           /\ texts[2] = pool[2]
           /\ choice_set.correct_index = 1

C24_Witness ==
    /\ choice_set # NoChoiceSet
    /\ discipline_key = "neuro"
    /\ choice_set.texts[1] = Pool("general")[5]
    /\ choice_set.texts[5] = Pool("general")[1]

(***************************************************************************)
(* replace_bad_item: what is chosen, what is written, and when              *)
(***************************************************************************)
\* the identifiers a batch holds, in canonical spelling
BatchIds(qs) == {Upper(Strip(OrEmpty(qs[k].pmcid))) : k \in 1..Len(qs)}

\* candidate k of the list could not have been chosen: its identifier is not
\* canonical or is in the batch, or it was tested and raised or was too short
Unsuitable(k, offered, tested, qs) ==
    LET id == normalize_pmcid_replace(offered[k])
    IN  \/ ~IsCanonical(id)
        \/ id \in BatchIds(qs)
        \/ \E r \in 1..Len(tested) :
              /\ tested[r].index = k
              /\ tested[r].exc # "" \/ tested[r].body_words < MinBodyWords

\* C25: the candidate replace_bad_item.main chooses has a canonical
\* identifier that no item of the batch has and measured at least 200 body
\* words, and every candidate before it in the list was unsuitable; the
\* files change only once a candidate is chosen: first the backup gets the
\* batch as read, then the batch file gets the same batch with item 1
\* replaced and the other 9 as they were; a run that raises has changed no
\* file and written no backup.
C25_ReplaceFirstSuitable ==
    [][script = "replace_bad_item"
       => /\ chosen = NoChosen /\ chosen' # NoChosen
             => /\ IsCanonical(chosen'.id)
                /\ chosen'.id \notin BatchIds(seed[EnrichedPath])
                /\ chosen'.body_words >= MinBodyWords
                /\ i' \in 1..Len(candidates')
                /\ normalize_pmcid_replace(candidates'[i']) = chosen'.id
                /\ \A k \in 1..(i' - 1) :
                      Unsuitable(k, candidates', results', seed[EnrichedPath])
                /\ seed' = seed
          /\ chosen # NoChosen
             => /\ chosen' = chosen
                /\ result'.kind # "raise"
          /\ seed' # seed
             => /\ chosen # NoChosen
                /\ DOMAIN seed' = DOMAIN seed \cup {BackupPath}
                /\ seed'[BackupPath] = seed[EnrichedPath]
                /\ IF BackupPath \notin DOMAIN seed
                   THEN seed'[EnrichedPath] = seed[EnrichedPath]
                   ELSE /\ Len(seed'[EnrichedPath]) = ExpectedLen
                        /\ seed'[EnrichedPath][1].pmcid = chosen.id
                        /\ \A k \in 2..ExpectedLen :
                              seed'[EnrichedPath][k] = seed[EnrichedPath][k]
          /\ result'.kind = "raise"
             => /\ seed' = seed
                /\ BackupPath \notin DOMAIN seed'
      ]_vars

C25_Witness ==
    /\ script = "replace_bad_item"
    /\ pc = "done"
    /\ result.kind = "return"
    /\ i = 2
    /\ Len(results) = 2
    /\ results[1].body_words = MinBodyWords - 1
    /\ seed[BackupPath] = PilotBatch
    /\ seed[EnrichedPath][1].pmcid = IdN(ExpectedLen + 1)
    /\ seed[EnrichedPath][2] = PilotBatch[2]

(***************************************************************************)
(* SpecChoices: build_choices_and_explanations.main on what it may find in *)
(* seed_pilot_10_step1stems.json                                           *)
(***************************************************************************)
StemsPath == "seed/seed_pilot_10_step1stems.json"

ReadyPath == "seed/seed_pilot_10_ready.json"

\* the batch build_step1_stems writes from the pilot batch
StemmedBatch ==
    [k \in 1..ExpectedLen |->
        [PilotBatch[k] EXCEPT !.stem = <<"A", " ", "murmur", " ", "fever", " ", "bp">>]]

\* item k as it may be instead: fresh from ingest_pilot, fresh from
\* replace_bad_item, with an empty or null stem, with 4 or with 6 choices
Unready(k) ==
    { transform_to_question(IdN(k)),
      build_item_from_candidate(IdN(ExpectedLen + 1)),
      [StemmedBatch[k] EXCEPT !.stem = <<>>],
      [StemmedBatch[k] EXCEPT !.stem = NoneVal],
      [StemmedBatch[k] EXCEPT !.choices = SubSeq(PlaceholderChoices, 1, 4)],
      [StemmedBatch[k] EXCEPT !.choices = Append(PlaceholderChoices, PlaceholderChoices[1])] }

\* questions[] of the input file
StemsFiles ==
    {StemmedBatch, SubSeq(StemmedBatch, 1, ExpectedLen - 1),
     Append(StemmedBatch, StemmedBatch[1])}
    \cup UNION {{[StemmedBatch EXCEPT ![k] = it] : it \in Unready(k)} : k \in 1..ExpectedLen}

\* the output of an earlier run
EarlierReady ==
    [k \in 1..ExpectedLen |-> fill_choices(StemmedBatch[k], <<4, 3, 2, 1>>).item]

InitChoices ==
    /\ \E given \in BOOLEAN, before \in BOOLEAN :
         \E qs \in StemsFiles :
            seed = LET fs == IF given THEN WriteBatch(<<>>, StemsPath, qs) ELSE <<>>
                   IN  IF before THEN WriteBatch(fs, ReadyPath, EarlierReady) ELSE fs
    /\ lastRun = NoRun
    /\ IdleNorm
    /\ InitFetch
    /\ IdleClassify /\ IdleBatch /\ IdleItem /\ IdleReshape /\ IdleExtract
    /\ IdleMore

NextChoices == ChoicesRun

SpecChoices == InitChoices /\ [][NextChoices]_vars

\* an item the choice synthesis must not work on
NotStemmed(it) ==
    \/ it.stem = NoneVal
    \/ it.stem = <<>>
    \/ \E k \in 1..Len(it.stem) : it.stem[k] = "[PLACEHOLDER]"
    \/ Len(it.choices) # 5

\* C26: build_choices_and_explanations.main raises and leaves seed/ as it is
\* when the input does not hold exactly 10 items, or an item has an empty
\* stem, a stem with the [PLACEHOLDER] marker, or not exactly 5 choices; the
\* ready file is written only from 10 items that all have a built stem, so
\* an item fresh from ingest_pilot or replace_bad_item gets no choices.
C26_ChoicesNeedStems ==
    [][lastRun'.stage = "build_choices_and_explanations" /\ StemsPath \in DOMAIN seed
       => LET qs == seed[StemsPath]
              unfit == Len(qs) # ExpectedLen \/ \E k \in 1..Len(qs) : NotStemmed(qs[k])
          IN  /\ unfit => /\ seed' = seed
                          /\ lastRun'.exc = "ValueError"
              /\ ~unfit => /\ lastRun'.exc = ""
                           /\ ReadyPath \in DOMAIN seed'
                           /\ Len(seed'[ReadyPath]) = ExpectedLen
                           /\ \A k \in 1..ExpectedLen :
                                 /\ seed'[ReadyPath][k].stem = qs[k].stem
                                 /\ \A c \in 1..5 :
                                       LET text == seed'[ReadyPath][k].choices[c].text
                                       IN  \A t \in 1..Len(text) : text[t] # "[PLACEHOLDER]"
      ]_vars

C26_Witness ==
    /\ lastRun = Run("build_choices_and_explanations", "ValueError")
    /\ StemsPath \in DOMAIN seed
    /\ Len(seed[StemsPath]) = ExpectedLen
    /\ seed[StemsPath][1] = build_item_from_candidate(IdN(ExpectedLen + 1))
    /\ \A k \in 2..ExpectedLen : seed[StemsPath][k] = StemmedBatch[k]
    /\ ReadyPath \in DOMAIN seed
    /\ seed[ReadyPath] = EarlierReady

(***************************************************************************)
(* SpecConvert: convert_ready_to_seed_minimal.main on what it may find in  *)
(* seed_pilot_10_ready.json                                                *)
(***************************************************************************)
MinimalPath == "seed/seed_pilot_10_seed_minimal.json"

\* an item of the ready file as it may be instead: no or two correct
\* choices, a label twice, a blank or null explanation, three choices
Spoiled(it) ==
    { [it EXCEPT !.choices[2].is_correct = FALSE],
      [it EXCEPT !.choices[3].is_correct = TRUE],
      [it EXCEPT !.choices[4].label = "A"],
      [it EXCEPT !.choices[5].explanation = <<" ">>],
      [it EXCEPT !.choices[1].explanation = NoneVal],
      [it EXCEPT !.choices = SubSeq(it.choices, 1, 3)] }

\* questions[] of the input file
ReadyFiles ==
    {EarlierReady, SubSeq(EarlierReady, 1, 4)}
    \cup UNION {{[EarlierReady EXCEPT ![k] = it] : it \in Spoiled(EarlierReady[k])}
                    : k \in 1..ExpectedLen}

\* the output of an earlier run
EarlierMinimal == <<convert_item(EarlierReady[1]).q>>

InitConvert ==
    /\ \E given \in BOOLEAN, before \in BOOLEAN :
         \E qs \in ReadyFiles :
            seed = LET fs == IF given THEN WriteBatch(<<>>, ReadyPath, qs) ELSE <<>>
                   IN  IF before THEN WriteBatch(fs, MinimalPath, EarlierMinimal) ELSE fs
    /\ lastRun = NoRun
    /\ IdleNorm
    /\ InitFetch
    /\ IdleClassify /\ IdleBatch /\ IdleItem /\ IdleReshape /\ IdleExtract
    /\ IdleMore

NextConvert == ConvertRun

SpecConvert == InitConvert /\ [][NextConvert]_vars

\* an item the reshaper converts without raising
Convertible(it) ==
    /\ it.stem # NoneVal
    /\ Len(it.choices) \in {4, 5}
    /\ \A k \in 1..Len(it.choices) :
          /\ it.choices[k].text # NoneVal
          /\ it.choices[k].explanation # NoneVal
          /\ \E t \in 1..Len(it.choices[k].explanation) :
                it.choices[k].explanation[t] \notin Whitespace
    /\ Cardinality({k \in 1..Len(it.choices) : it.choices[k].is_correct}) = 1
    /\ \A j, k \in 1..Len(it.choices) :
          j # k => it.choices[j].label # it.choices[k].label

\* C27: convert_ready_to_seed_minimal.main writes its output only when every
\* item of the input converts and passes assert_valid_question, one output
\* question per item; when one item fails, no output file is written and an
\* output file of an earlier run stays as it was.
C27_ConvertAllOrNothing ==
    [][lastRun'.stage = "convert_ready_to_seed_minimal" /\ ReadyPath \in DOMAIN seed
       => LET qs == seed[ReadyPath]
          IN  IF \A k \in 1..Len(qs) : Convertible(qs[k])
              THEN /\ lastRun'.exc = ""
                   /\ DOMAIN seed' = DOMAIN seed \cup {MinimalPath}
                   /\ \A name \in DOMAIN seed \ {MinimalPath} : seed'[name] = seed[name]
                   /\ Len(seed'[MinimalPath]) = Len(qs)
                   /\ \A k \in 1..Len(qs) :
                         /\ MeetsRules(seed'[MinimalPath][k])
                         /\ seed'[MinimalPath][k].stem = Strip(qs[k].stem)
              ELSE /\ lastRun'.exc # ""
                   /\ seed' = seed
      ]_vars

C27_Witness ==
    /\ lastRun = Run("convert_ready_to_seed_minimal", "ValueError")
    /\ ReadyPath \in DOMAIN seed
    /\ Len(seed[ReadyPath]) = ExpectedLen
    /\ \A k \in 1..(ExpectedLen - 1) : seed[ReadyPath][k] = EarlierReady[k]
    /\ seed[ReadyPath][ExpectedLen] # EarlierReady[ExpectedLen]
    /\ MinimalPath \in DOMAIN seed
    /\ seed[MinimalPath] = EarlierMinimal

(***************************************************************************)
(* Body extraction: every paragraph once                                   *)
(***************************************************************************)
\* no p element lies inside another p element
ParagraphsApart == \A k \in Tagged("p") : Ancestors(tree, k) \cap Tagged("p") = {}

\* C28 as stated: the body extraction of audit_fulltext_coverage and of
\* extract_pmc_text returns the text of every p element under a body
\* container, or without body container under a sec element, once and in
\* document order, also when sec or body elements lie inside one another.
C28_ParagraphsOnce ==
    (extracted # NoExtracted /\ extracted.by # "replace_bad_item" /\ ParagraphsApart)
    => /\ Under("p", "body") # {}
              => extracted.body = ParagraphText(Under("p", "body"))
       /\ (Tagged("body") = {} /\ Under("p", "sec") # {})
              => extracted.body = ParagraphText(Under("p", "sec"))

(***************************************************************************)
(* SpecImport: import_medmcqa.main, row after row, on a Postgres           *)
(* connection with autocommit off                                          *)
(***************************************************************************)
\* rows of the split that are followed through
MaxRows == 2

\* largest LIMIT
MaxLimit == 2

\* s[:120] of norm_tag
TagLimit == 120

\* row.get("cop") is None, and the -1 build_import_seed_medmcqa puts for it
NoCop == -1

SystemUser == "00000000-0000-0000-0000-000000000001"

MedRow(id, choice_type, cop, question, opd, subject_name) ==
    [id |-> id, choice_type |-> choice_type, cop |-> cop, question |-> question,
     opa |-> <<"a", " ">>, opb |-> <<"b">>, opc |-> <<"c">>, opd |-> opd,
     subject_name |-> subject_name, topic_name |-> NoneVal]

\* the rows of the split: two rows of one question with different answers,
\* a row of another question, and rows import_medmcqa passes over
MedRows ==
    { MedRow("q1", "single", 1, <<" ", "stem">>, <<"d">>, <<"Anatomy", " ">>),
      MedRow("q1", "single", 4, <<"stem", " ", "again">>, <<"d">>, <<"Anatomy">>),
      MedRow("q2", "single", 3, <<"stem">>, <<"d">>, NoneVal),
      MedRow("q2", "multi", 2, <<"stem">>, <<"d">>, NoneVal),
      MedRow("q2", "single", 0, <<"stem">>, <<"d">>, NoneVal),
      MedRow("q2", "single", 2, <<" ">>, <<"d">>, NoneVal),
      MedRow("q2", "single", 2, <<"stem">>, NoneVal, NoneVal) }

Datasets == UNION {[1..n -> MedRows] : n \in 0..MaxRows}

\* norm_tag
norm_tag(s) ==
    LET t == clean_text(OrEmpty(s))
    IN  IF Len(t) > TagLimit THEN SubSeq(t, 1, TagLimit) ELSE t

\* the checks of the loop that end in "continue": TRUE when the row goes on
import_accepts(row) ==
    /\ row.choice_type = "single"
    /\ row.cop \in {1, 2, 3, 4}
    /\ Strip(OrEmpty(row.question)) # <<>>
    /\ \A o \in {row.opa, row.opb, row.opc, row.opd} : Strip(OrEmpty(o)) # <<>>

StoredChoice(qv, label, text, is_correct) ==
    [qv |-> qv, label |-> label, text |-> text, is_correct |-> is_correct]

\* choices = [(qv_id, "A", opa, cop == 1), ...]
import_choices(qv, row) ==
    << StoredChoice(qv, "A", Strip(OrEmpty(row.opa)), row.cop = 1),
       StoredChoice(qv, "B", Strip(OrEmpty(row.opb)), row.cop = 2),
       StoredChoice(qv, "C", Strip(OrEmpty(row.opc)), row.cop = 3),
       StoredChoice(qv, "D", Strip(OrEmpty(row.opd)), row.cop = 4) >>

\* INSERT INTO questions ... ON CONFLICT (canonical_code) DO UPDATE
upsert_question(t, code) == [t EXCEPT !.questions = @ \cup {code}]

\* version 1 of the question is looked up, and inserted when there is none;
\* the version is known by the code of its question
ensure_version(t, code, stem) ==
    IF \E v \in t.versions : v.question = code THEN t
    ELSE [t EXCEPT !.versions = @ \cup {[question |-> code, stem |-> stem]}]

DeleteChoicesNothing(t, qv) == t

\* DELETE FROM question_choices WHERE question_version_id = qv_id
delete_choices(t, qv) ==
    [t EXCEPT !.choices = SelectSeq(@, LAMBDA c : c.qv # qv)]

\* execute_values(cur, INSERT INTO question_choices ..., choices)
insert_choices(t, stored_rows) == [t EXCEPT !.choices = @ \o stored_rows]

\* the tags of the row that are not empty
RowTags(row) ==
    {[name |-> norm_tag(row.subject_name), tag_type |-> "discipline"],
     [name |-> norm_tag(row.topic_name), tag_type |-> "topic"]}
    \ {[name |-> <<>>, tag_type |-> ty] : ty \in {"discipline", "topic"}}

\* every tag is looked up, and inserted when it is not there
ensure_tags(t, row) == [t EXCEPT !.tags = @ \cup RowTags(row)]

\* the links of the version are deleted and those to the tags inserted
relink_tags(t, qv, row) ==
    [t EXCEPT !.links = {l \in @ : l.qv # qv}
                        \cup {[qv |-> qv, tag |-> g] : g \in RowTags(row)}]

\* the six statements of one row
Statements == 6

\* the tables as the connection sees them when statement number failed of
\* the row raises, or after all of them when failed is 0
RowWrites(t, row, failed) ==
    LET code == <<"medmcqa", ":", row.id>>
        s1 == upsert_question(t, code)
        s2 == ensure_version(s1, code, Strip(OrEmpty(row.question)))
        s3 == delete_choices(s2, code)
        s4 == insert_choices(s3, import_choices(code, row))
        s5 == ensure_tags(s4, row)
        s6 == relink_tags(s5, code, row)
    IN  IF failed = 0 THEN s6 ELSE <<t, s1, s2, s3, s4, s5>>[failed]

\* the database an earlier run has left: question q1 with answer B
ImportedBefore ==
    RowWrites([EmptyDb EXCEPT !.users = {SystemUser}],
              MedRow("q1", "single", 2, <<"stem">>, <<"d">>, <<"Anatomy">>), 0)

InitImport ==
    /\ script = "import_medmcqa"
    /\ pc = "main"
    /\ db \in {EmptyDb, ImportedBefore}
    /\ tx = db
    /\ inserted = 0
    /\ dataset \in Datasets
    /\ limit \in 0..MaxLimit
    /\ med_row = <<>>
    /\ med_import = <<>>
    /\ med_seed = <<>>
    /\ hits = <<>>
    /\ picked = <<>>
    /\ selected = <<>>
    /\ candidates = <<>>
    /\ chosen = NoChosen
    /\ discipline_key = "None"
    /\ choice_set = NoChoiceSet
    /\ seed = <<>>
    /\ lastRun = NoRun
    /\ files = <<>>
    /\ questions = <<>>
    /\ i = 0
    /\ results = <<>>
    /\ sent = <<>>
    /\ faults = <<>>
    /\ output = NoOutput
    /\ result = NoResult
    /\ stored = {}
    /\ calls = 0
    /\ pmcid = <<>>
    /\ attempt = 0
    /\ last_msg = EmptyMsg
    /\ requested = <<>>
    /\ lastResp = NoResp
    /\ verdict = "none"
    /\ printed = NoPrint
    /\ IdleNorm
    /\ IdleClassify /\ IdleItem /\ IdleReshape /\ IdleExtract

importFrame == <<normVars, classVars, itemVars, reshapeVars, extractVars, stored,
                 calls, pmcid, attempt, last_msg, requested, lastResp, verdict,
                 printed, script, output, lastRun, candidates, chosen, questions,
                 discipline_key, choice_set, results, sent, faults, files, hits,
                 picked, selected, seed, dataset, limit, med_row, med_import,
                 med_seed>>

\* the system user is inserted on the new connection, or the insert raises
ImportConnect ==
    /\ script = "import_medmcqa"
    /\ pc = "main"
    /\ \E raised \in BOOLEAN :
        IF raised
        THEN pc' = "except" /\ UNCHANGED tx
        ELSE /\ pc' = "loop"
             /\ tx' = [tx EXCEPT !.users = @ \cup {SystemUser}]
    /\ UNCHANGED <<db, inserted, i, result>>
    /\ UNCHANGED importFrame

\* a row that one of the checks passes over
ImportSkip ==
    /\ script = "import_medmcqa"
    /\ pc = "loop"
    /\ inserted < limit
    /\ i < Len(dataset)
    /\ ~import_accepts(dataset[i + 1])
    /\ i' = i + 1
    /\ UNCHANGED <<db, tx, inserted, pc, result>>
    /\ UNCHANGED importFrame

\* the statements of a row, all of them or up to the one that raises
ImportRow ==
    /\ script = "import_medmcqa"
    /\ pc = "loop"
    /\ inserted < limit
    /\ i < Len(dataset)
    /\ import_accepts(dataset[i + 1])
    /\ \E failed \in 0..Statements :
        /\ tx' = RowWrites(tx, dataset[i + 1], failed)
        /\ pc' = IF failed = 0 THEN "commit" ELSE "except"
    /\ UNCHANGED <<db, inserted, i, result>>
    /\ UNCHANGED importFrame

\* conn.commit(); inserted += 1
ImportCommit ==
    /\ script = "import_medmcqa"
    /\ pc = "commit"
    /\ db' = tx
    /\ inserted' = inserted + 1
    /\ i' = i + 1
    /\ pc' = "loop"
    /\ UNCHANGED <<tx, result>>
    /\ UNCHANGED importFrame

\* except Exception: conn.rollback(); raise
ImportRollback ==
    /\ script = "import_medmcqa"
    /\ pc = "except"
    /\ tx' = db
    /\ pc' = "done"
    /\ result' = Result("raise", "Exception", NoPath, EmptyMsg)
    /\ UNCHANGED <<db, inserted, i>>
    /\ UNCHANGED importFrame

\* the loop ends at LIMIT or at the last row; closing the connection drops
\* what was not committed
ImportEnd ==
    /\ script = "import_medmcqa"
    /\ pc = "loop"
    /\ inserted >= limit \/ i = Len(dataset)
    /\ tx' = db
    /\ pc' = "done"
    /\ result' = Result("return", "", NoPath, EmptyMsg)
    /\ UNCHANGED <<db, inserted, i>>
    /\ UNCHANGED importFrame

NextImport ==
    \/ ImportConnect
    \/ ImportSkip
    \/ ImportRow
    \/ ImportCommit
    \/ ImportRollback
    \/ ImportEnd

SpecImport == InitImport /\ [][NextImport]_vars

\* the choices stored for a version
ChoicesOf(t, qv) == SelectSeq(t.choices, LAMBDA c : c.qv = qv)

\* four choices, A to D in this order, exactly one of them correct
FourOneCorrect(cs) ==
    /\ Len(cs) = 4
    /\ [k \in 1..4 |-> cs[k].label] = <<"A", "B", "C", "D">>
    /\ Cardinality({k \in 1..4 : cs[k].is_correct}) = 1

\* C29: import_medmcqa.main changes the committed tables only by the commit
\* that ends an imported row, one commit per count of inserted, which stays
\* within LIMIT; the version of the row then has exactly the four choices A
\* to D of the row, the one at cop correct, also when the question was
\* imported before; every version in the committed tables has four choices
\* with one correct; when a statement of a row raises, what the row wrote is
\* rolled back and the committed tables stay as they were.
C29_CommitPerQuestion ==
    [][script = "import_medmcqa"
       => /\ inserted' <= limit
          /\ \A v \in db'.versions : FourOneCorrect(ChoicesOf(db', v.question))
          /\ (db' # db \/ inserted' # inserted)
             => /\ inserted' = inserted + 1
                /\ i' = i + 1
                /\ LET row == dataset[i']
                       qv == <<"medmcqa", ":", row.id>>
                   IN  /\ qv \in db'.questions
                       /\ \E v \in db'.versions : v.question = qv
                       /\ \A k \in 1..4 :
                             ChoicesOf(db', qv)[k].is_correct <=> k = row.cop
                       /\ \A v \in db.versions :
                             v.question # qv
                             => ChoicesOf(db', v.question) = ChoicesOf(db, v.question)
                       /\ db.questions \subseteq db'.questions
          /\ pc' = "done" => /\ tx' = db'
                             /\ db' = db
      ]_vars

C29_Witness ==
    /\ script = "import_medmcqa"
    /\ pc = "done"
    /\ result.kind = "raise"
    /\ inserted = 1
    /\ i = 1
    /\ dataset[1].id = "q1"
    /\ dataset[2].id = "q1"
    /\ dataset[1].cop = 1
    /\ \E v \in db.versions : v.question = <<"medmcqa", ":", "q1">> /\ v.stem = <<"stem">>
    /\ ChoicesOf(db, <<"medmcqa", ":", "q1">>)[1].is_correct
    /\ tx = db

(***************************************************************************)
(* SpecMedmcqa: one dataset row handed to import_medmcqa and to            *)
(* build_import_seed_medmcqa                                               *)
(***************************************************************************)
\* the values of cop: missing, and the integers around the two ranges
CopValues == {NoCop, 0, 1, 2, 3, 4, 5}

RowsOfBoth ==
    {MedRow("q1", ty, cop, question, opd, NoneVal) :
        ty \in {"single", "multi"}, cop \in CopValues,
        question \in {<<"stem", " ">>, <<" ">>}, opd \in {<<"d">>, NoneVal}}

\* what an importer makes of a row: it is passed over, or gets choices
Made(accepted, choices) == [accepted |-> accepted, choices |-> choices]

\* letter(i) for i = k - 1
letter(k) == <<"A", "B", "C", "D", "E">>[k]

\* int(row.get("cop")) if row.get("cop") is not None else -1
correct_idx(row) == IF row.cop = NoCop THEN -1 ELSE row.cop

\* the minimal validations of build_import_seed_medmcqa.main
seed_accepts(row) ==
    /\ Strip(OrEmpty(row.question)) # <<>>
    /\ \A o \in {row.opa, row.opb, row.opc, row.opd} : Strip(OrEmpty(o)) # <<>>
    /\ correct_idx(row) \in {0, 1, 2, 3}

\* the choices of build_import_seed_medmcqa.main: enumerate counts from 0
seed_choices(row) ==
    LET options == <<Strip(OrEmpty(row.opa)), Strip(OrEmpty(row.opb)),
                     Strip(OrEmpty(row.opc)), Strip(OrEmpty(row.opd))>>
    IN  [k \in 1..4 |-> [label |-> letter(k), text |-> options[k],
                         correct |-> (k - 1 = correct_idx(row))]]

InitMedmcqa ==
    /\ med_row \in RowsOfBoth
    /\ med_import = <<>>
    /\ med_seed = <<>>
    /\ db = EmptyDb
    /\ tx = EmptyDb
    /\ inserted = 0
    /\ dataset = <<>>
    /\ limit = 0
    /\ candidates = <<>>
    /\ chosen = NoChosen
    /\ hits = <<>>
    /\ picked = <<>>
    /\ selected = <<>>
    /\ discipline_key = "None"
    /\ choice_set = NoChoiceSet
    /\ IdleNorm
    /\ InitFetch
    /\ IdleClassify /\ IdleBatch /\ IdleItem /\ IdleReshape /\ IdlePipe /\ IdleExtract

medmcqaFrame == <<normVars, fetchVars, classVars, batchVars, itemVars, reshapeVars,
                  pipeVars, extractVars, candidates, chosen, hits, picked, selected,
                  discipline_key, choice_set, db, tx, inserted, dataset, limit,
                  med_row>>

\* import_medmcqa.main on the row: the checks, then the choices it inserts
ImportOne ==
    /\ med_row # <<>>
    /\ med_import = <<>>
    /\ med_import' = IF import_accepts(med_row)
                     THEN Made(TRUE, import_choices(<<"medmcqa", ":", med_row.id>>, med_row))
                     ELSE Made(FALSE, <<>>)
    /\ UNCHANGED med_seed
    /\ UNCHANGED medmcqaFrame

\* build_import_seed_medmcqa.main on the row
SeedOne ==
    /\ med_row # <<>>
    /\ med_seed = <<>>
    /\ med_seed' = IF seed_accepts(med_row) THEN Made(TRUE, seed_choices(med_row))
                   ELSE Made(FALSE, <<>>)
    /\ UNCHANGED med_import
    /\ UNCHANGED medmcqaFrame

NextMedmcqa ==
    \/ ImportOne
    \/ SeedOne

SpecMedmcqa == InitMedmcqa /\ [][NextMedmcqa]_vars

\* C30 as stated: on a row both importers accept they mark the same option
\* correct, and on single-choice rows they accept the same values of cop.
C30_SameCorrectOption ==
    (med_import # <<>> /\ med_seed # <<>>)
    => /\ (med_import.accepted /\ med_seed.accepted)
              => \A k \in 1..4 :
                    /\ med_import.choices[k].label = med_seed.choices[k].label
                    /\ med_import.choices[k].is_correct = med_seed.choices[k].correct
       /\ med_row.choice_type = "single"
              => (med_import.accepted <=> med_seed.accepted)

====
